---- MODULE Spec2Model ----
(***************************************************************************)
(* Alert ingestion-and-indexing engine: the bidirectional NDJSON log       *)
(* reader (app/alert_parser.py), the record normalizer / identity assigner *)
(* (backend/app/alert_processor.py), the LRU cache                         *)
(* (backend/app/services/cache_service.py) and the indexed store           *)
(* (app/services/alert_service.py).                                        *)
(*                                                                         *)
(* Ten specifications share the variables:                                 *)
(*   SpecParser    parse_alerts over a file, forward and reverse           *)
(*   SpecCache     the cache's put / get / delete / clear / reset_stats    *)
(*   Spec          the store: load, list and direct cache operations       *)
(*   SpecIdentity  repeated loads, with the identities they gave out       *)
(*   SpecLoad      loads of files with records the processor rejects, and  *)
(*                 of a file that has gone                                 *)
(*   SpecConfig    SpecCache's calls on a cache of any configured max_size *)
(*   SpecThreads   threads calling into one cache, access by access        *)
(*   SpecProcessor normalize and process_batch, with enrichment steps      *)
(*   SpecQuery     search, severity distribution and timeline after the    *)
(*                 load of the application's start                         *)
(*   SpecReader    the reverse reader, and a load, step by step, under     *)
(*                 weak fairness                                           *)
(***************************************************************************)
EXTENDS Integers, Sequences, FiniteSets, TLC

VARIABLES
    file,          \* the log file: a sequence of bytes
    parsed,        \* the last parse_alerts call: its arguments and what it emitted;
                   \* in SpecReader the generator of a call as it runs
    now,           \* datetime.utcnow() as last read
    cache,         \* the CacheService object: max_size, _cache (least recently
                   \* used first), _hits, _misses, _evictions, _overwrites
    agent_index,   \* AlertService._agent_index
    rule_index,    \* AlertService._rule_index
    time_index,    \* AlertService._time_index: <<timestamp, id>> pairs
    lastOp,        \* the last operation, its arguments and its result
    lastUse,       \* history: key -> logical time of its last put or successful get
    clock,         \* history: the logical time of lastUse
    pending,       \* history: a get that promoted the least recently used entry
    assigned,      \* history: the identities load gave to records, and when
    before,        \* history: the identities held when the last load began
    gets,          \* history: the get calls of SpecCache since the last clear,
                   \* and since the counters were last set to zero
    threads,       \* the threads calling into one CacheService: the lock, and
                   \* each thread's call and place in it
    input          \* what the processor is called with: a raw record, or the
                   \* registered enrichment steps and a batch of raw records

vars == <<file, parsed, now, cache, agent_index, rule_index, time_index,
          lastOp, lastUse, clock, pending, assigned, before, gets, threads, input>>

-----------------------------------------------------------------------------
(* Bounds of the model *)

MaxLines == 3       \* lines of a log file
MaxCapacity == 2    \* cache capacities 1..MaxCapacity
MaxNow == 4         \* utcnow() ranges over 3..MaxNow
MaxOps == 5         \* cache operations between two clears in SpecCache
\* bytes read per step of the reverse reader; the code reads 8192, the files of
\* the model are a few bytes long, so the chunk is scaled to fall inside lines
ChunkSize == 2

None == -1          \* Python's None where an integer (time, count) is expected
NoneS == "None"     \* Python's None where a string is expected

-----------------------------------------------------------------------------
(* Sequences *)

Min(a, b) == IF a < b THEN a ELSE b

Reverse(s) == [i \in 1..Len(s) |-> s[Len(s) + 1 - i]]

RECURSIVE Concat(_)
Concat(ss) == IF ss = <<>> THEN <<>> ELSE Head(ss) \o Concat(Tail(ss))

SeqsUpTo(S, n) == UNION {[1..k -> S] : k \in 0..n}

Range(s) == {s[i] : i \in DOMAIN s}

\* the elements of s at the positions in keep, order kept
RECURSIVE PickFrom(_, _, _)
PickFrom(s, keep, i) ==
    IF i > Len(s) THEN <<>>
    ELSE (IF i \in keep THEN <<s[i]>> ELSE <<>>) \o PickFrom(s, keep, i + 1)

Pick(s, keep) == PickFrom(s, keep, 1)

-----------------------------------------------------------------------------
(* Bytes, lines and JSON                                                   *)
(* A byte is "NL" (the line terminator), "sp" (white space), "{" or "}",   *)
(* "7" (a JSON number), or the name of a record body: the text between the *)
(* braces of one JSON object, taken as one unit.                           *)

NL == "NL"

\* bytes.split(b"\n") / str.split: the segments between terminators, at
\* least one
RECURSIVE Split(_)
Split(buf) ==
    IF \A i \in 1..Len(buf) : buf[i] # NL THEN <<buf>>
    ELSE LET i == CHOOSE j \in 1..Len(buf) :
                      buf[j] = NL /\ \A k \in 1..(j - 1) : buf[k] # NL
         IN <<SubSeq(buf, 1, i - 1)>> \o Split(SubSeq(buf, i + 1, Len(buf)))

\* the lines a text-mode file iteration yields: a final terminator ends the
\* last line and opens no new one
FileLines(f) ==
    LET segs == Split(f)
    IN IF segs[Len(segs)] = <<>> THEN SubSeq(segs, 1, Len(segs) - 1) ELSE segs

\* str.strip()
RECURSIVE Strip(_)
Strip(line) ==
    IF line = <<>> THEN line
    ELSE IF Head(line) = "sp" THEN Strip(Tail(line))
    ELSE IF line[Len(line)] = "sp" THEN Strip(SubSeq(line, 1, Len(line) - 1))
    ELSE line

\* The raw records of the model, by body name.  Absent keys are absent from
\* the record's domain; a number is written as its JSON token ("3"), a JSON
\* string where a number is expected with quotes inside ("'7'"), and a
\* JSON string where an object is expected as [string |-> ...].
Bodies == {"a", "b", "c", "d", "e", "f", "g", "h", "i", "j", "k", "m", "n"}

RawOf(b) ==
    CASE b = "a" -> [timestamp |-> "T1", agent |-> [id |-> "a1", name |-> "A"],
                     rule |-> [id |-> "100", level |-> "3"]]
      [] b = "b" -> [timestamp |-> "T2", agent |-> [id |-> "a2", name |-> "B"],
                     rule |-> [id |-> "200", level |-> "12"]]
      [] b = "c" -> [timestamp |-> "T3", agent |-> [id |-> "a1", name |-> "A"],
                     rule |-> [id |-> "200", level |-> "7"], src_ip |-> "10.0.0.1"]
      [] b = "d" -> [timestamp |-> "T3", agent |-> [id |-> "a1", name |-> "A"],
                     rule |-> [id |-> "200", level |-> "7"], source_ip |-> "10.0.0.1"]
      [] b = "e" -> [agent |-> [id |-> "a2", name |-> "B"],
                     rule |-> [id |-> "100", level |-> "0"]]
      [] b = "f" -> [timestamp |-> "x", agent |-> [id |-> "a1", name |-> "A"],
                     rule |-> [id |-> "100", level |-> "15"]]
      [] b = "g" -> [timestamp |-> "T2", agent |-> [id |-> "a2", name |-> "B"],
                     rule |-> [id |-> "200", level |-> "16"]]
      [] b = "h" -> [timestamp |-> "T2", agent |-> [id |-> "", name |-> "B"],
                     rule |-> [id |-> "100", level |-> "3"]]
      [] b = "i" -> [timestamp |-> "T2", agent |-> [string |-> "web01"],
                     rule |-> [id |-> "100", level |-> "3"]]
      [] b = "j" -> [timestamp |-> "T2", agent |-> [id |-> "a2", name |-> "B"],
                     rule |-> [id |-> "200", level |-> "'high'"]]
      [] b = "k" -> [timestamp |-> "T3", agent |-> [id |-> "a2", name |-> "B"],
                     rule |-> [id |-> "200", level |-> "'7'"]]
      [] b = "m" -> [timestamp |-> "T2"]
      [] b = "n" -> [timestamp |-> "T2", agent |-> [id |-> "a2", name |-> "B"],
                     rule |-> [id |-> "300", level |-> "15"]]

\* json.loads(line): an object, a number, or JSONDecodeError
Loads(line) ==
    IF Len(line) = 3 /\ line[1] = "{" /\ line[3] = "}" /\ line[2] \in Bodies
        THEN [ok |-> TRUE, kind |-> "obj", body |-> line[2]]
    ELSE IF line = <<"7">>
        THEN [ok |-> TRUE, kind |-> "num", body |-> "7"]
    ELSE [ok |-> FALSE, kind |-> "err", body |-> ""]

\* datetime.fromisoformat(ts.replace("Z", "+00:00")) brought to naive UTC;
\* None when the text is no ISO-8601 timestamp
FromIso(ts) ==
    CASE ts = "T1" -> 1
      [] ts = "T2" -> 2
      [] ts = "T3" -> 3
      [] OTHER -> None

-----------------------------------------------------------------------------
(* AlertParser *)

\* _extract_timestamp: alert.get raises AttributeError on a value that is
\* no dict; a missing, empty or unparsable timestamp gives None
ExtractTimestamp(alert) ==
    IF alert.kind # "obj" THEN [raised |-> TRUE, t |-> None]
    ELSE LET raw == RawOf(alert.body)
         IN IF "timestamp" \notin DOMAIN raw THEN [raised |-> FALSE, t |-> None]
            ELSE [raised |-> FALSE, t |-> FromIso(raw.timestamp)]

PassesTimeFilter_NoEnd(alert, start_time, end_time) ==
    IF start_time = None /\ end_time = None THEN "pass"
    ELSE LET x == ExtractTimestamp(alert)
         IN IF x.raised THEN "raise"
            ELSE IF x.t = None THEN "pass"
            ELSE IF start_time # None /\ x.t < start_time THEN "drop"
            ELSE "pass"

\* _passes_time_filter: "pass", "drop", or "raise" when _extract_timestamp
\* raises
PassesTimeFilter(alert, start_time, end_time) ==
    IF start_time = None /\ end_time = None THEN "pass"
    ELSE LET x == ExtractTimestamp(alert)
         IN IF x.raised THEN "raise"
            ELSE IF x.t = None THEN "pass"
            ELSE IF start_time # None /\ x.t < start_time THEN "drop"
            ELSE IF end_time # None /\ x.t > end_time THEN "drop"
            ELSE "pass"

\* "if max_alerts and yielded >= max_alerts": None and 0 are both falsy
MaxReached(max_alerts, yielded) ==
    max_alerts # None /\ max_alerts # 0 /\ yielded >= max_alerts

\* the body of the forward loop, lines i.. of the file; acc is what was
\* emitted and how the generator stands: "run", "stop" or "raise"
RECURSIVE FwdLines(_, _, _, _, _, _)
FwdLines(lines, i, start_time, end_time, max_alerts, acc) ==
    IF i > Len(lines) \/ acc.status # "run" THEN acc
    ELSE LET line == Strip(lines[i])
             j == Loads(line)
             alert == [kind |-> j.kind, body |-> j.body]
             p == PassesTimeFilter(alert, start_time, end_time)
             next ==
                IF line = <<>> THEN acc
                ELSE IF ~j.ok THEN acc
                ELSE IF p = "raise" THEN [acc EXCEPT !.status = "raise"]
                ELSE IF p = "drop" THEN acc
                ELSE LET out == Append(acc.out, alert)
                     IN [out |-> out,
                         status |-> IF MaxReached(max_alerts, Len(out))
                                    THEN "stop" ELSE "run"]
         IN FwdLines(lines, i + 1, start_time, end_time, max_alerts, next)

\* the loop over reversed(lines[1:]) of _parse_reverse
RECURSIVE RevLines(_, _, _, _, _, _)
RevLines(raws, i, start_time, end_time, max_alerts, acc) ==
    IF i > Len(raws) \/ acc.status # "run" THEN acc
    ELSE LET line == Strip(raws[i])
             j == Loads(line)
             alert == [kind |-> j.kind, body |-> j.body]
             x == ExtractTimestamp(alert)
             p == PassesTimeFilter(alert, start_time, end_time)
             next ==
                IF line = <<>> THEN acc
                ELSE IF ~j.ok THEN acc
                ELSE IF x.raised THEN [acc EXCEPT !.status = "raise"]
                ELSE IF start_time # None /\ x.t # None /\ x.t < start_time
                    THEN [acc EXCEPT !.status = "stop"]
                ELSE IF p = "drop" THEN acc
                ELSE LET out == Append(acc.out, alert)
                     IN [out |-> out,
                         status |-> IF MaxReached(max_alerts, Len(out))
                                    THEN "stop" ELSE "run"]
         IN RevLines(raws, i + 1, start_time, end_time, max_alerts, next)

RECURSIVE RevChunks_NoCarry(_, _, _, _, _, _, _, _)
RevChunks_NoCarry(f, position, buffer, chunk, start_time, end_time, max_alerts, acc) ==
    IF position <= 0 \/ acc.status # "run" THEN acc
    ELSE LET chunk_size == Min(chunk, position)
             pos == position - chunk_size
             buf == SubSeq(f, pos + 1, pos + chunk_size) \o buffer
             lines == Split(buf)
             acc2 == RevLines(Reverse(Tail(lines)), 1,
                              start_time, end_time, max_alerts, acc)
         IN RevChunks_NoCarry(f, pos, <<>>, chunk,
                              start_time, end_time, max_alerts, acc2)

\* the "while position > 0" loop of _parse_reverse, reading chunk bytes a step
RECURSIVE RevChunks(_, _, _, _, _, _, _, _)
RevChunks(f, position, buffer, chunk, start_time, end_time, max_alerts, acc) ==
    IF position <= 0 \/ acc.status # "run" THEN acc
    ELSE LET chunk_size == Min(chunk, position)
             pos == position - chunk_size
             buf == SubSeq(f, pos + 1, pos + chunk_size) \o buffer
             lines == Split(buf)
             acc2 == RevLines(Reverse(Tail(lines)), 1,
                              start_time, end_time, max_alerts, acc)
         IN RevChunks(f, pos, lines[1], chunk,
                      start_time, end_time, max_alerts, acc2)

\* the path of a file that is not there: open() raises FileNotFoundError
Missing == <<"ENOENT">>

ParseReverseChunked(f, chunk, start_time, end_time, max_alerts) ==
    RevChunks(f, Len(f), <<>>, chunk, start_time, end_time, max_alerts,
              [out |-> <<>>, status |-> "run"])

\* _parse_reverse with the chunk size of the code
ParseReverse(f, start_time, end_time, max_alerts) ==
    IF f = Missing THEN [out |-> <<>>, status |-> "notfound"]
    ELSE ParseReverseChunked(f, ChunkSize, start_time, end_time, max_alerts)

\* what a consumer of the generator sees: the records, whether it raised,
\* and whether what it raised is FileNotFoundError
Outcome(acc) ==
    [out |-> acc.out,
     raised |-> acc.status \in {"raise", "notfound"},
     notfound |-> acc.status = "notfound"]

\* the forward branch of parse_alerts
ParseForward(f, start_time, end_time, max_alerts) ==
    IF f = Missing THEN [out |-> <<>>, status |-> "notfound"]
    ELSE FwdLines(FileLines(f), 1, start_time, end_time, max_alerts,
                  [out |-> <<>>, status |-> "run"])

\* parse_alerts: the records emitted, and whether the generator raised
ParseAlerts(f, start_time, end_time, max_alerts, reverse) ==
    Outcome(IF reverse THEN ParseReverse(f, start_time, end_time, max_alerts)
            ELSE ParseForward(f, start_time, end_time, max_alerts))

-----------------------------------------------------------------------------
(* AlertNormalizer, AlertValidator, AlertProcessor *)

\* normalized[new] = normalized.pop(old), when old is a key
Rename(raw, old, new) ==
    IF old \notin DOMAIN raw THEN raw
    ELSE [k \in (DOMAIN raw \ {old}) \cup {new} |->
              IF k = new THEN raw[old] ELSE raw[k]]

\* AlertNormalizer.normalize: FIELD_MAPPINGS applied in their order
Normalize(raw) ==
    Rename(Rename(Rename(Rename(raw, "source_ip", "srcip"),
                         "src_ip", "srcip"),
                  "destination_ip", "dstip"),
           "dest_ip", "dstip")

\* ts.replace(":", "").replace("-", "") of the raw timestamp text
Compact(ts) ==
    CASE ts = "T1" -> "1"
      [] ts = "T2" -> "2"
      [] ts = "T3" -> "3"
      [] OTHER -> ts

\* hashlib.md5(json.dumps(raw, sort_keys=True, default=str)).hexdigest()[:10]:
\* a digest of the key-sorted content, taken as free of collisions; equal
\* contents have one digest, named after a body with that content
Digest(content) ==
    IF \E b \in Bodies : Normalize(RawOf(b)) = content
    THEN "h" \o (CHOOSE b \in Bodies : Normalize(RawOf(b)) = content)
    ELSE "h?"

\* the raw timestamp text, "" when the key is absent
RawTimestamp(raw) == IF "timestamp" \in DOMAIN raw THEN raw.timestamp ELSE ""

GenerateAlertId_Clock(raw) ==
    (IF FromIso(RawTimestamp(raw)) = None THEN ToString(now)
     ELSE Compact(RawTimestamp(raw))) \o "_" \o Digest(raw)

\* _generate_alert_id: f"{ts}_{digest}"
GenerateAlertId(raw) == Compact(RawTimestamp(raw)) \o "_" \o Digest(raw)

\* _parse_timestamp: utcnow() for an absent or unparsable timestamp
ParseTimestamp(raw, utcnow) ==
    IF "timestamp" \notin DOMAIN raw THEN utcnow
    ELSE IF FromIso(raw.timestamp) = None THEN utcnow
    ELSE FromIso(raw.timestamp)

\* {}: the dict with no key
EmptyDict == [k \in {} |-> k]

\* data.get(key, default)
GetOr(data, key, default) == IF key \in DOMAIN data THEN data[key] ELSE default

\* whether a JSON value is an object, so that .get can be called on it
IsDict(v) == "string" \notin DOMAIN v

\* int(x) of a JSON number or string: the integer, or ValueError
ToInt(tok) ==
    CASE tok = "0" -> [ok |-> TRUE, v |-> 0]
      [] tok = "3" -> [ok |-> TRUE, v |-> 3]
      [] tok = "7" -> [ok |-> TRUE, v |-> 7]
      [] tok = "'7'" -> [ok |-> TRUE, v |-> 7]
      [] tok = "12" -> [ok |-> TRUE, v |-> 12]
      [] tok = "15" -> [ok |-> TRUE, v |-> 15]
      [] tok = "16" -> [ok |-> TRUE, v |-> 16]
      [] OTHER -> [ok |-> FALSE, v |-> 0]

\* _parse_agent, for an agent that is an object
ParseAgent(raw) ==
    LET data == GetOr(raw, "agent", EmptyDict)
    IN [id |-> GetOr(data, "id", "unknown"), name |-> GetOr(data, "name", "unknown")]

\* _parse_rule, for a rule that is an object with a level int() accepts; an
\* absent level is the integer 0
ParseRule(raw) ==
    LET data == GetOr(raw, "rule", EmptyDict)
    IN [id |-> GetOr(data, "id", "unknown"), level |-> ToInt(GetOr(data, "level", "0")).v]

\* whether building the Alert raises: .get on an agent or a rule that is no
\* object (AttributeError), int() of a level that is no number (ValueError)
BuildRaises(raw) ==
    \/ ~IsDict(GetOr(raw, "agent", EmptyDict))
    \/ ~IsDict(GetOr(raw, "rule", EmptyDict))
    \/ ~ToInt(GetOr(GetOr(raw, "rule", EmptyDict), "level", "0")).ok

Validate_NoLevel(alert) ==
    /\ alert.id # ""
    /\ alert.agent.id # ""
    /\ alert.rule.id # ""

\* AlertValidator.validate; a datetime is never falsy
Validate(alert) ==
    /\ alert.id # ""
    /\ alert.agent.id # ""
    /\ alert.rule.id # ""
    /\ 0 <= alert.rule.level /\ alert.rule.level <= 15

\* AlertProcessor.process, with no enricher registered: the record, or None
\* Alert(id=..., timestamp=..., agent=..., rule=...) of the normalized record
BuildAlert(raw, utcnow) ==
    [id |-> GenerateAlertId(raw),
     timestamp |-> ParseTimestamp(raw, utcnow),
     agent |-> ParseAgent(raw),
     rule |-> ParseRule(raw)]

\* the validation loop of process: the record, or None
Validated(alert) ==
    IF Validate(alert) THEN [ok |-> TRUE, raised |-> FALSE, alert |-> alert]
    ELSE [ok |-> FALSE, raised |-> FALSE]

\* the try block of process, on the normalized record
TryBlock(raw, utcnow) ==
    IF BuildRaises(raw) THEN [ok |-> FALSE, raised |-> TRUE]
    ELSE Validated(BuildAlert(raw, utcnow))

\* except Exception: return None
Caught(r) == IF r.raised THEN [ok |-> FALSE, raised |-> FALSE] ELSE r

Process_NoCatch(raw_alert, utcnow) == TryBlock(Normalize(raw_alert), utcnow)

\* AlertProcessor.process: ok with the record, or None; raised says whether
\* an exception leaves the call
Process(raw_alert, utcnow) == Caught(TryBlock(Normalize(raw_alert), utcnow))

\* An enrichment step, as far as process can tell one from another: what it
\* does to the record (sets the level to 12, or raises it by one), whether
\* it does so on the record it was handed (the Alert is a mutable object) or
\* on a copy that it returns, and whether it raises once that is done.
EnricherSteps ==
    [effect : {"set", "bump"}, inplace : BOOLEAN, raises : BOOLEAN]

Effect(step, alert) ==
    IF step.effect = "set" THEN [alert EXCEPT !.rule.level = 12]
    ELSE [alert EXCEPT !.rule.level = @ + 1]

\* one turn of the enrichment loop: alert = enricher(raw, alert) inside
\* try/except.  The name alert is bound anew only when the step returns; a
\* step that raises leaves it bound to the object it was handed, with
\* whatever the step did to that object.
RunEnricher(step, alert) ==
    IF step.raises /\ ~step.inplace THEN alert ELSE Effect(step, alert)

\* the enrichment loop, in registration order
RECURSIVE Enrich(_, _)
Enrich(alert, enrichers) ==
    IF enrichers = <<>> THEN alert
    ELSE Enrich(RunEnricher(Head(enrichers), alert), Tail(enrichers))

\* process with the given steps registered
ProcessWith(raw_alert, utcnow, enrichers) ==
    IF BuildRaises(Normalize(raw_alert)) THEN Caught([ok |-> FALSE, raised |-> TRUE])
    ELSE Caught(Validated(Enrich(BuildAlert(Normalize(raw_alert), utcnow), enrichers)))

\* process_batch: the records process returned, in the order of the batch
RECURSIVE ProcessBatch(_, _, _)
ProcessBatch(raw_alerts, utcnow, enrichers) ==
    IF raw_alerts = <<>> THEN <<>>
    ELSE LET r == ProcessWith(Head(raw_alerts), utcnow, enrichers)
         IN (IF r.ok THEN <<r.alert>> ELSE <<>>)
                \o ProcessBatch(Tail(raw_alerts), utcnow, enrichers)

-----------------------------------------------------------------------------
(* CacheService *)

\* CacheService.__init__
NewCache(capacity) ==
    [max_size |-> capacity, _cache |-> <<>>,
     _hits |-> 0, _misses |-> 0, _evictions |-> 0, _overwrites |-> 0]

Keys(c) == {c._cache[i][1] : i \in DOMAIN c._cache}

\* the entries without key, order kept
RECURSIVE Without(_, _)
Without(entries, key) ==
    IF entries = <<>> THEN <<>>
    ELSE IF Head(entries)[1] = key THEN Without(Tail(entries), key)
    ELSE <<Head(entries)>> \o Without(Tail(entries), key)

\* self._cache[key]
ValueOf(c, key) ==
    LET i == CHOOSE j \in DOMAIN c._cache : c._cache[j][1] = key
    IN c._cache[i][2]

CachePut_InPlace(c, key, value) ==
    IF key \in Keys(c)
    THEN [c EXCEPT !._cache = [i \in DOMAIN @ |->
                                  IF @[i][1] = key THEN <<key, value>> ELSE @[i]],
                   !._overwrites = @ + 1]
    ELSE LET c2 == [c EXCEPT !._cache = Append(@, <<key, value>>)]
         IN IF Len(c2._cache) > c2.max_size
            THEN [c2 EXCEPT !._cache = Tail(@), !._evictions = @ + 1]
            ELSE c2

CachePut_NoEvict(c, key, value) ==
    LET c1 == IF key \in Keys(c)
              THEN [c EXCEPT !._cache = Without(@, key), !._overwrites = @ + 1]
              ELSE c
    IN [c1 EXCEPT !._cache = Append(@, <<key, value>>)]

CachePut_EvictNewest(c, key, value) ==
    LET c1 == IF key \in Keys(c)
              THEN [c EXCEPT !._cache = Without(@, key), !._overwrites = @ + 1]
              ELSE c
        c2 == [c1 EXCEPT !._cache = Append(@, <<key, value>>)]
    IN IF Len(c2._cache) > c2.max_size
       THEN [c2 EXCEPT !._cache = SubSeq(@, 1, Len(@) - 1), !._evictions = @ + 1]
       ELSE c2

\* CacheService.put
CachePut(c, key, value) ==
    LET c1 == IF key \in Keys(c)
              THEN [c EXCEPT !._cache = Without(@, key), !._overwrites = @ + 1]
              ELSE c
        c2 == [c1 EXCEPT !._cache = Append(@, <<key, value>>)]
    IN IF Len(c2._cache) > c2.max_size
       THEN [c2 EXCEPT !._cache = Tail(@), !._evictions = @ + 1]
       ELSE c2

CacheGet_MissUncounted(c, key) ==
    IF key \notin Keys(c) THEN c
    ELSE [c EXCEPT !._cache = Append(Without(@, key), <<key, ValueOf(c, key)>>),
                   !._hits = @ + 1]

CacheGet_NoPromote(c, key) ==
    IF key \notin Keys(c) THEN [c EXCEPT !._misses = @ + 1]
    ELSE [c EXCEPT !._hits = @ + 1]

\* CacheService.get: the cache after the call (what it returns is
\* ValueOf(c, key) when key is in Keys(c), and None otherwise)
CacheGet(c, key) ==
    IF key \notin Keys(c) THEN [c EXCEPT !._misses = @ + 1]
    ELSE [c EXCEPT !._cache = Append(Without(@, key), <<key, ValueOf(c, key)>>),
                   !._hits = @ + 1]

\* CacheService.delete
CacheDelete(c, key) == [c EXCEPT !._cache = Without(@, key)]

\* CacheService.reset_stats
CacheResetStats(c) ==
    [c EXCEPT !._hits = 0, !._misses = 0, !._evictions = 0, !._overwrites = 0]

\* CacheService.clear, with reset_stats
CacheClear(c) ==
    [c EXCEPT !._cache = <<>>, !._hits = 0, !._misses = 0,
              !._evictions = 0, !._overwrites = 0]

\* a run of get calls, one after the other
RECURSIVE CacheGetAll(_, _)
CacheGetAll(c, keys) ==
    IF keys = <<>> THEN c ELSE CacheGetAll(CacheGet(c, Head(keys)), Tail(keys))

-----------------------------------------------------------------------------
(* Log files *)

\* the texts a line of the model's files may hold: a JSON object, a padded
\* one, a JSON number, a truncated object, nothing
ObjectLine(b) == <<"{", b, "}">>

ParserBodies == {"a", "b", "c", "e", "f"}

ParserLineTexts ==
    {ObjectLine(b) : b \in ParserBodies}
        \cup {<<"sp", "{", "b", "}", "sp">>, <<"7">>, <<"{", "a">>, <<>>}

\* the bytes of a file of the given lines, each ended by the terminator
\* except, when open is TRUE, the last
RECURSIVE Join(_, _)
Join(lines, open) ==
    IF lines = <<>> THEN <<>>
    ELSE IF Len(lines) = 1 /\ open THEN Head(lines)
    ELSE Head(lines) \o <<NL>> \o Join(Tail(lines), open)

FilesOf(texts, n) ==
    {Join(ls, open) : ls \in SeqsUpTo(texts, n), open \in BOOLEAN}

-----------------------------------------------------------------------------
(* State shared by the three specifications *)

NoParse == [done |-> FALSE]
NoOp == [op |-> "none"]
NoPending == [set |-> FALSE]
NoThreads == <<>>
NoGets == [clear |-> 0, zeroed |-> 0]
NoInput == [none |-> TRUE]

Times == 1..3
Counts == 0..2

-----------------------------------------------------------------------------
(* SpecParser: parse_alerts called on a file.  A call keeps nothing in the  *)
(* AlertParser (it re-opens the file), so calls do not interact and one    *)
(* call per behaviour covers them all.                                     *)

ParserInit ==
    /\ file \in FilesOf(ParserLineTexts, MaxLines)
    /\ parsed = NoParse
    /\ now = 3
    /\ cache = NewCache(1)
    /\ agent_index = <<>>
    /\ rule_index = <<>>
    /\ time_index = <<>>
    /\ lastOp = NoOp
    /\ lastUse = <<>>
    /\ clock = 0
    /\ pending = NoPending
    /\ assigned = {}
    /\ before = {}
    /\ gets = NoGets
    /\ threads = NoThreads
    /\ input = NoInput

ParseCall(start_time, end_time, max_alerts, reverse) ==
    LET r == ParseAlerts(file, start_time, end_time, max_alerts, reverse)
    IN /\ ~parsed.done
       /\ parsed' = [done |-> TRUE, start_time |-> start_time, end_time |-> end_time,
                     max_alerts |-> max_alerts, reverse |-> reverse,
                     out |-> r.out, raised |-> r.raised]
       /\ UNCHANGED <<file, now, cache, agent_index, rule_index, time_index,
                      lastOp, lastUse, clock, pending, assigned, before, gets, threads, input>>

ParseForwardCall ==
    \E s \in Times \cup {None}, e \in Times \cup {None}, m \in Counts \cup {None} :
        ParseCall(s, e, m, FALSE)

ParseReverseCall ==
    \E s \in Times \cup {None}, e \in Times \cup {None}, m \in Counts \cup {None} :
        ParseCall(s, e, m, TRUE)

ParserNext == ParseForwardCall \/ ParseReverseCall

SpecParser == ParserInit /\ [][ParserNext]_vars

\* what the claims say of a line: the object it holds, if it holds one
LineIsObject(line) == Loads(Strip(line)).ok /\ Loads(Strip(line)).kind = "obj"
LineIsInvalid(line) == Strip(line) # <<>> /\ ~LineIsObject(line)
LineRecord(line) == [kind |-> "obj", body |-> Loads(Strip(line)).body]

RECURSIVE RecordsOf(_)
RecordsOf(lines) ==
    IF lines = <<>> THEN <<>>
    ELSE IF LineIsObject(Head(lines))
        THEN <<LineRecord(Head(lines))>> \o RecordsOf(Tail(lines))
    ELSE RecordsOf(Tail(lines))

Unbounded(p) == p.start_time = None /\ p.end_time = None /\ p.max_alerts = None

\* C1: with no time window and no max count, reverse-mode parse_alerts emits
\* the records forward mode emits over the same file, in the reverse order;
\* the first line of the file is emitted, last.  Stated for the files whose
\* lines are objects, blank or unparsable: what a line that is another JSON
\* value does to either mode is the matter of C8.
C1_ReverseMirrorsForward ==
    (/\ parsed.done /\ parsed.reverse /\ Unbounded(parsed)
     /\ \A i \in DOMAIN FileLines(file) :
           LineIsObject(FileLines(file)[i]) \/ ~Loads(Strip(FileLines(file)[i])).ok) =>
        LET fwd == ParseAlerts(file, None, None, None, FALSE)
        IN /\ ~parsed.raised
           /\ parsed.out = Reverse(fwd.out)

\* C8: in both read modes, with or without a window, a line that is no valid
\* structured record (unparsable, or JSON that is no object) is not emitted
\* and does not fail the stream; a forward read with no bounds emits every
\* object line, in reading order.
C8_InvalidLinesSkipped ==
    (parsed.done /\ parsed.max_alerts = None) =>
        /\ ~parsed.raised
        /\ \A i \in DOMAIN parsed.out : parsed.out[i].kind = "obj"
        /\ (Unbounded(parsed) /\ ~parsed.reverse) =>
              parsed.out = RecordsOf(FileLines(file))

\* the timestamp the window is compared with, None when the record has no
\* parseable one
TimestampOf(alert) ==
    IF "timestamp" \in DOMAIN RawOf(alert.body)
    THEN FromIso(RawOf(alert.body).timestamp) ELSE None

\* C9: given a window [start, end], either bound optional, every record
\* emitted by forward or reverse parse_alerts has no parseable timestamp or
\* a timestamp t with start <= t <= end.
C9_EmittedInsideWindow ==
    (parsed.done /\ ~(parsed.start_time = None /\ parsed.end_time = None)) =>
        \A i \in DOMAIN parsed.out :
            /\ parsed.out[i].kind = "obj"
            /\ LET t == TimestampOf(parsed.out[i])
               IN \/ t = None
                  \/ /\ (parsed.start_time # None => parsed.start_time <= t)
                     /\ (parsed.end_time # None => t <= parsed.end_time)

\* a reverse read with both bounds given that emitted a record and met, before
\* it, a record later than the window's end
C9_Witness ==
    /\ parsed.done /\ parsed.reverse
    /\ parsed.start_time = 2 /\ parsed.end_time = 2
    /\ Len(parsed.out) >= 1
    /\ \E i \in DOMAIN FileLines(file) :
          /\ LineIsObject(FileLines(file)[i])
          /\ TimestampOf(LineRecord(FileLines(file)[i])) = 3
          /\ i = Len(FileLines(file))

\* every line of the file is an object, blank or unparsable
ObjectsOrJunk(f) ==
    \A i \in DOMAIN FileLines(f) :
        LineIsObject(FileLines(f)[i]) \/ ~Loads(Strip(FileLines(f)[i])).ok

\* what the call of parsed emits when no maximum count is given
Uncounted(p) == ParseAlerts(file, p.start_time, p.end_time, None, p.reverse)

\* C27: with a maximum count m >= 0 given, forward and reverse parse_alerts
\* emit at most m records and stop right after the m-th: what is emitted is
\* the first m records of what the same call emits without a maximum (lines
\* skipped as malformed or as outside the window not counting), and nothing
\* after the m-th record is read, so nothing after it can fail the stream.
\* Stated for the files whose lines are objects, blank or unparsable (C8
\* has the others).
C27_AtMostMaxEmitted ==
    (parsed.done /\ parsed.max_alerts # None /\ ObjectsOrJunk(file)) =>
        /\ Len(parsed.out) <= parsed.max_alerts
        /\ Len(Uncounted(parsed).out) >= parsed.max_alerts =>
              /\ parsed.out = SubSeq(Uncounted(parsed).out, 1, parsed.max_alerts)
              /\ ~parsed.raised
        /\ Len(Uncounted(parsed).out) < parsed.max_alerts =>
              /\ parsed.out = Uncounted(parsed).out
              /\ parsed.raised = Uncounted(parsed).raised

\* whether s is t with some elements left out
RECURSIVE IsSubseq(_, _)
IsSubseq(s, t) ==
    IF s = <<>> THEN TRUE
    ELSE IF t = <<>> THEN FALSE
    ELSE IF Head(s) = Head(t) THEN IsSubseq(Tail(s), Tail(t))
    ELSE IsSubseq(s, Tail(t))

\* whether the line holds a record with a timestamp strictly before start
OlderLine(line, start) ==
    /\ LineIsObject(line)
    /\ TimestampOf(LineRecord(line)) # None
    /\ TimestampOf(LineRecord(line)) < start

\* the number of the last line of the file that holds such a record, 0 when
\* no line does: the first one a reverse read comes to
LastOlder(lines, start) ==
    IF \E j \in DOMAIN lines : OlderLine(lines[j], start)
    THEN CHOOSE j \in DOMAIN lines :
             /\ OlderLine(lines[j], start)
             /\ \A k \in DOMAIN lines : OlderLine(lines[k], start) => k <= j
    ELSE 0

\* C25: in reverse mode with a window start given, nothing is emitted from
\* the lines at or before the last line that holds a record with a timestamp
\* strictly earlier than start (the first such record the reader comes to
\* ends the production), and a record behind that line whose timestamp
\* equals start is emitted (no maximum count given, the end of the window
\* not before its start).  Stated for the files whose lines are objects,
\* blank or unparsable.
C25_StopsAtOlderRecord ==
    (/\ parsed.done /\ parsed.reverse /\ parsed.start_time # None
     /\ ObjectsOrJunk(file)) =>
        LET lines == FileLines(file)
            K == LastOlder(lines, parsed.start_time)
        IN /\ IsSubseq(parsed.out,
                       Reverse(RecordsOf(SubSeq(lines, K + 1, Len(lines)))))
           /\ (/\ parsed.max_alerts = None
               /\ parsed.end_time = None \/ parsed.end_time >= parsed.start_time) =>
                 \A j \in (K + 1)..Len(lines) :
                     (/\ LineIsObject(lines[j])
                      /\ TimestampOf(LineRecord(lines[j])) = parsed.start_time) =>
                         LineRecord(lines[j]) \in Range(parsed.out)

\* C26: for the same file, window and maximum count, reverse reading emits
\* the same records, and ends the same way, for every chunk size from 1 (less
\* than any line) to more than the whole file: a line that spans chunk
\* boundaries is put together again and emitted once.
C26_ChunkSizeIndifferent ==
    (parsed.done /\ parsed.reverse) =>
        \A chunk \in 1..(Len(file) + 1) :
            LET r == Outcome(ParseReverseChunked(file, chunk, parsed.start_time,
                                                 parsed.end_time, parsed.max_alerts))
            IN r.out = parsed.out /\ r.raised = parsed.raised

\* a reverse read, in chunks shorter than a line, of a file whose last two
\* lines hold records, one of them padded with white space: both are emitted
C26_Witness ==
    /\ parsed.done /\ parsed.reverse
    /\ Len(parsed.out) = 2
    /\ Len(FileLines(file)) = 3
    /\ \E i \in 2..3 : Len(FileLines(file)[i]) > 2 * ChunkSize
    /\ \A i \in 2..3 : LineIsObject(FileLines(file)[i])

-----------------------------------------------------------------------------
(* SpecCache: put, get, delete and clear called on one CacheService.  The  *)
(* history variables date every use of a key, so that "least recently      *)
(* used" is read off the calls made and not off the cache's own order.     *)

CacheKeys == 1..(MaxCapacity + 1)
CacheValues == {"x", "y"}

CacheInit ==
    /\ file = <<>>
    /\ parsed = NoParse
    /\ now = 3
    /\ cache \in {NewCache(n) : n \in 1..MaxCapacity}
    /\ agent_index = <<>>
    /\ rule_index = <<>>
    /\ time_index = <<>>
    /\ lastOp = NoOp
    /\ lastUse = <<>>
    /\ clock = 0
    /\ pending = NoPending
    /\ assigned = {}
    /\ before = {}
    /\ gets = NoGets
    /\ threads = NoThreads
    /\ input = NoInput

\* the key used longest ago, and the one after it
LRU(lu) == CHOOSE k \in DOMAIN lu : \A j \in DOMAIN lu : lu[k] <= lu[j]
SecondLRU(lu) ==
    CHOOSE k \in DOMAIN lu \ {LRU(lu)} :
        \A j \in DOMAIN lu \ {LRU(lu)} : lu[k] <= lu[j]

\* lastUse after a call that leaves the keys ks in the cache and uses key
Used(ks, key) ==
    [k \in ks |-> IF k = key THEN clock + 1 ELSE lastUse[k]]

PutOp(key, value) ==
    /\ cache' = CachePut(cache, key, value)
    /\ lastOp' = [op |-> "put", key |-> key, value |-> value,
                  fresh |-> key \notin Keys(cache), promoted |-> pending.set]

\* what get(key) returns
GetReturns(c, key) == IF key \in Keys(c) THEN ValueOf(c, key) ELSE NoneS

GetOp(key) ==
    /\ cache' = CacheGet(cache, key)
    /\ lastOp' = [op |-> "get", key |-> key, found |-> key \in Keys(cache),
                  ret |-> GetReturns(cache, key)]

DeleteOp(key) ==
    /\ cache' = CacheDelete(cache, key)
    /\ lastOp' = [op |-> "delete", key |-> key, found |-> key \in Keys(cache)]

ClearOp ==
    /\ cache' = CacheClear(cache)
    /\ lastOp' = [op |-> "clear"]

ResetStatsOp ==
    /\ cache' = CacheResetStats(cache)
    /\ lastOp' = [op |-> "reset_stats"]

CPut ==
    \E key \in CacheKeys, value \in CacheValues :
        /\ clock < MaxOps
        /\ PutOp(key, value)
        /\ clock' = clock + 1
        /\ lastUse' = Used(Keys(cache'), key)
        /\ pending' = NoPending
        /\ UNCHANGED <<file, parsed, now, agent_index, rule_index, time_index,
                       assigned, before, gets, threads, input>>

CGet ==
    \E key \in CacheKeys :
        /\ clock < MaxOps
        /\ GetOp(key)
        /\ clock' = clock + 1
        /\ lastUse' = IF key \in Keys(cache) THEN Used(Keys(cache), key) ELSE lastUse
        /\ pending' =
              IF key \notin Keys(cache) THEN pending
              ELSE IF /\ cache.max_size >= 2
                      /\ Len(cache._cache) = cache.max_size
                      /\ key = LRU(lastUse)
                  THEN [set |-> TRUE, key |-> key, second |-> SecondLRU(lastUse)]
              ELSE NoPending
        /\ gets' = [clear |-> gets.clear + 1, zeroed |-> gets.zeroed + 1]
        /\ UNCHANGED <<file, parsed, now, agent_index, rule_index, time_index,
                       assigned, before, threads, input>>

CDelete ==
    \E key \in CacheKeys :
        /\ clock < MaxOps
        /\ DeleteOp(key)
        /\ clock' = clock + 1
        /\ lastUse' = [k \in Keys(cache') |-> lastUse[k]]
        /\ pending' = NoPending
        /\ UNCHANGED <<file, parsed, now, agent_index, rule_index, time_index,
                       assigned, before, gets, threads, input>>

CClear ==
    /\ ClearOp
    /\ clock' = 0
    /\ lastUse' = <<>>
    /\ pending' = NoPending
    /\ gets' = NoGets
    /\ UNCHANGED <<file, parsed, now, agent_index, rule_index, time_index,
                   assigned, before, threads, input>>

\* reset_stats() called on its own
CResetStats ==
    /\ clock < MaxOps
    /\ ResetStatsOp
    /\ clock' = clock + 1
    /\ gets' = [gets EXCEPT !.zeroed = 0]
    /\ UNCHANGED <<file, parsed, now, agent_index, rule_index, time_index,
                   lastUse, pending, assigned, before, threads, input>>

CacheNext == CPut \/ CGet \/ CDelete \/ CClear \/ CResetStats

SpecCache == CacheInit /\ [][CacheNext]_vars

\* C4: a put of a key not in the cache, on a cache that holds max_size
\* entries, removes exactly one entry, the one used longest ago, and adds 1
\* to the eviction counter; any other put removes no entry and leaves the
\* eviction counter as it was.
C4_PutEvictsLeastRecentlyUsed ==
    [][lastOp'.op = "put" =>
          IF lastOp'.fresh /\ Len(cache._cache) = cache.max_size
          THEN /\ Keys(cache') = (Keys(cache) \ {LRU(lastUse)}) \cup {lastOp'.key}
               /\ Cardinality(Keys(cache')) = Cardinality(Keys(cache))
               /\ cache'._evictions = cache._evictions + 1
          ELSE /\ Keys(cache') = Keys(cache) \cup {lastOp'.key}
               /\ cache'._evictions = cache._evictions]_vars

\* a put has just evicted from a cache of two or more entries, after a get
\* had changed which entry was the oldest
C4_Witness ==
    /\ lastOp.op = "put" /\ lastOp.fresh
    /\ cache._evictions >= 1
    /\ cache._hits >= 1
    /\ cache.max_size >= 2
    /\ Len(cache._cache) = cache.max_size

\* C5: with max_size >= 2 and a full cache, when get(k) succeeds on the
\* least recently used entry and the next call that changes the entries or
\* their recency is a put of a new key, k is still in the cache afterwards
\* and the entry evicted is the one that was second least recently used
\* before the get.
C5_GetPromotes ==
    [][(pending.set /\ lastOp'.op = "put" /\ lastOp'.fresh) =>
          /\ pending.key \in Keys(cache')
          /\ Keys(cache) \ Keys(cache') = {pending.second}]_vars

\* such a put has just happened
C5_Witness ==
    /\ lastOp.op = "put" /\ lastOp.fresh /\ lastOp.promoted
    /\ cache._evictions >= 1

-----------------------------------------------------------------------------
(* AlertService *)

Falsy(s) == s = NoneS \/ s = ""

\* self._time_index.sort(key=lambda x: x[0]): a stable sort, so equal
\* timestamps keep the order they came in
RECURSIVE InsertByTime(_, _)
InsertByTime(sorted, y) ==
    IF sorted = <<>> THEN <<y>>
    ELSE IF Head(sorted)[1] <= y[1]
        THEN <<Head(sorted)>> \o InsertByTime(Tail(sorted), y)
    ELSE <<y>> \o sorted

RECURSIVE SortTimeIndex(_)
SortTimeIndex(ti) ==
    IF ti = <<>> THEN <<>>
    ELSE InsertByTime(SortTimeIndex(SubSeq(ti, 1, Len(ti) - 1)), ti[Len(ti)])

IndexAppend_Replace(index, key, id) ==
    [k \in DOMAIN index \cup {key} |-> IF k = key THEN <<id>> ELSE index[k]]

\* index[key].append(id) on a defaultdict(list)
IndexAppend(index, key, id) ==
    [k \in DOMAIN index \cup {key} |->
        IF k = key THEN Append(IF k \in DOMAIN index THEN index[k] ELSE <<>>, id)
        ELSE index[k]]

\* index.get(key, [])
IndexGet(index, key) == IF key \in DOMAIN index THEN index[key] ELSE <<>>

\* one turn of the loop of load_recent_alerts: r is what process did with
\* the record of the given body; st holds the cache, the three indexes and
\* the two counts, and whether an exception has left the loop
LoadRecord(st, body, r, utcnow) ==
    IF r.raised THEN [st EXCEPT !.raised = TRUE]
    ELSE IF ~r.ok THEN [st EXCEPT !.failed = @ + 1]
    ELSE [cache |-> CachePut(st.cache, r.alert.id, r.alert),
          agent_index |-> IndexAppend(st.agent_index, r.alert.agent.id, r.alert.id),
          rule_index |-> IndexAppend(st.rule_index, r.alert.rule.id, r.alert.id),
          time_index |-> Append(st.time_index, <<r.alert.timestamp, r.alert.id>>),
          loaded |-> st.loaded + 1,
          failed |-> st.failed,
          raised |-> FALSE,
          given |-> st.given \cup {[body |-> body, id |-> r.alert.id, at |-> utcnow]}]

\* the loop of load_recent_alerts over the records the reader delivers
RECURSIVE LoadRecords(_, _, _)
LoadRecords(out, utcnow, st) ==
    IF out = <<>> \/ st.raised THEN st
    ELSE LoadRecords(Tail(out), utcnow,
                     LoadRecord(st, Head(out).body,
                                Process(RawOf(Head(out).body), utcnow), utcnow))

LoadEnd_NoCatch(st, r, start_time) ==
    [cache |-> st.cache,
     agent_index |-> st.agent_index,
     rule_index |-> st.rule_index,
     time_index |-> IF st.raised \/ r.raised THEN st.time_index
                    ELSE SortTimeIndex(st.time_index),
     raised |-> st.raised \/ r.raised,
     ret |-> st.loaded,
     failed |-> st.failed,
     start_time |-> start_time,
     given |-> st.given]

\* the end of load_recent_alerts, r being how the reader ended: an exception
\* of the loop or of the reader passes through, the sort not run, but for
\* FileNotFoundError, on which 0 is returned
LoadEnd(st, r, start_time) ==
    [cache |-> st.cache,
     agent_index |-> st.agent_index,
     rule_index |-> st.rule_index,
     time_index |-> IF st.raised \/ r.raised THEN st.time_index
                    ELSE SortTimeIndex(st.time_index),
     raised |-> st.raised \/ (r.raised /\ ~r.notfound),
     ret |-> IF ~st.raised /\ r.notfound THEN 0 ELSE st.loaded,
     failed |-> st.failed,
     start_time |-> start_time,
     given |-> st.given]

LoadFrom_KeepIndexes(c, r, utcnow, start_time) ==
    LoadEnd(LoadRecords(r.out, utcnow,
                        [cache |-> CacheClear(c), agent_index |-> agent_index,
                         rule_index |-> rule_index, time_index |-> time_index,
                         loaded |-> 0, failed |-> 0, raised |-> FALSE,
                         given |-> {}]),
            r, start_time)

LoadFrom_NoClear(c, r, utcnow, start_time) ==
    LoadEnd(LoadRecords(r.out, utcnow,
                        [cache |-> c, agent_index |-> <<>>,
                         rule_index |-> <<>>, time_index |-> <<>>,
                         loaded |-> 0, failed |-> 0, raised |-> FALSE,
                         given |-> {}]),
            r, start_time)

\* load_recent_alerts from the clearing on, r being what the reader delivers
LoadFrom(c, r, utcnow, start_time) ==
    LoadEnd(LoadRecords(r.out, utcnow,
                        [cache |-> CacheClear(c), agent_index |-> <<>>,
                         rule_index |-> <<>>, time_index |-> <<>>,
                         loaded |-> 0, failed |-> 0, raised |-> FALSE,
                         given |-> {}]),
            r, start_time)

\* load_recent_alerts(hours): the state it leaves and what it returns
LoadRecentAlerts(c, f, utcnow, hours) ==
    LoadFrom(c, ParseAlerts(f, utcnow - hours, None, None, TRUE),
             utcnow, utcnow - hours)

MatchesFilters_NoMax(alert, filters) ==
    /\ ~(filters.severity_min # None /\ alert.rule.level < filters.severity_min)
    /\ ~(~Falsy(filters.agent_id) /\ alert.agent.id # filters.agent_id)
    /\ ~(~Falsy(filters.rule_id) /\ alert.rule.id # filters.rule_id)

\* _matches_filters, for the filters of the model
MatchesFilters(alert, filters) ==
    /\ ~(filters.severity_min # None /\ alert.rule.level < filters.severity_min)
    /\ ~(filters.severity_max # None /\ alert.rule.level > filters.severity_max)
    /\ ~(~Falsy(filters.agent_id) /\ alert.agent.id # filters.agent_id)
    /\ ~(~Falsy(filters.rule_id) /\ alert.rule.id # filters.rule_id)

NoFilters == [none |-> TRUE]

\* the identities the indexes offer for the filters
Candidates(filters, ai, ri, ti) ==
    LET agent_ids == Range(IndexGet(ai, filters.agent_id))
        rule_ids == Range(IndexGet(ri, filters.rule_id))
    IN IF ~Falsy(filters.agent_id) /\ ~Falsy(filters.rule_id) THEN agent_ids \cap rule_ids
       ELSE IF ~Falsy(filters.agent_id) THEN agent_ids
       ELSE IF ~Falsy(filters.rule_id) THEN rule_ids
       ELSE {ti[i][2] : i \in DOMAIN ti}

\* the get calls of the sort key: one on a miss, two on a hit
RECURSIVE KeyGets(_, _)
KeyGets(c, order) ==
    IF order = <<>> THEN <<>>
    ELSE (IF Head(order) \in Keys(c) THEN <<Head(order), Head(order)>>
          ELSE <<Head(order)>>) \o KeyGets(c, Tail(order))

\* datetime.min, below every timestamp
DatetimeMin == -1

SortKey(c, x) == IF x \in Keys(c) THEN ValueOf(c, x).timestamp ELSE DatetimeMin

\* sorted(candidate_ids, key=..., reverse=True): stable, newest first
RECURSIVE InsertNewestFirst(_, _, _)
InsertNewestFirst(sorted, y, c) ==
    IF sorted = <<>> THEN <<y>>
    ELSE IF SortKey(c, Head(sorted)) >= SortKey(c, y)
        THEN <<Head(sorted)>> \o InsertNewestFirst(Tail(sorted), y, c)
    ELSE <<y>> \o sorted

RECURSIVE SortNewestFirst(_, _)
SortNewestFirst(order, c) ==
    IF order = <<>> THEN <<>>
    ELSE InsertNewestFirst(SortNewestFirst(SubSeq(order, 1, Len(order) - 1), c),
                           order[Len(order)], c)

\* the ids of s that cache.get finds
RECURSIVE Cached(_, _)
Cached(s, c) ==
    IF s = <<>> THEN <<>>
    ELSE IF Head(s) \in Keys(c) THEN <<Head(s)>> \o Cached(Tail(s), c)
    ELSE Cached(Tail(s), c)

\* the final pass of _get_filtered_ids over the sorted candidates
FinalPass(c, sorted, hits, filters) ==
    Pick(hits, {i \in DOMAIN hits : MatchesFilters(ValueOf(c, hits[i]), filters)})

\* the ids and the get calls of _get_filtered_ids, given the sorted candidates
FilteredFrom(c, order, sorted, filters) ==
    [ids |-> FinalPass(c, sorted, Cached(sorted, c), filters),
     gets |-> KeyGets(c, order) \o sorted]

\* _get_filtered_ids: the ids, and the keys cache.get was called with, in
\* the order of the calls.  order is the order in which the candidate set
\* iterates, which Python leaves open.
GetFilteredIds(c, ti, filters, order) ==
    IF filters = NoFilters
    THEN [ids |-> [i \in 1..Len(ti) |-> ti[Len(ti) + 1 - i][2]], gets |-> <<>>]
    ELSE FilteredFrom(c, order, SortNewestFirst(order, c), filters)

Perms(S) == {p \in [1..Cardinality(S) -> S] : \A x \in S : \E i \in DOMAIN p : p[i] = x}

\* alert_ids[offset: offset + limit]
Slice(s, offset, limit) ==
    SubSeq(s, offset + 1, Min(offset + limit, Len(s)))

\* [self.cache.get(aid) for aid in paginated if self.cache.get(aid)]
PageAlerts(c, found) == [i \in 1..Len(found) |-> ValueOf(c, found[i])]

\* get_alerts after _get_filtered_ids returned fi
AlertsFrom(c, fi, paginated) ==
    [alerts |-> PageAlerts(c, Cached(paginated, c)),
     total |-> Len(fi.ids),
     cache |-> CacheGetAll(c, fi.gets \o KeyGets(c, paginated))]

PageFrom(c, fi, limit, offset) == AlertsFrom(c, fi, Slice(fi.ids, offset, limit))

\* get_alerts: the page, the total and the cache after the get calls
GetAlerts(c, ti, limit, offset, filters, order) ==
    PageFrom(c, GetFilteredIds(c, ti, filters, order), limit, offset)

\* Texts are sequences of characters where search looks inside them.
\* str(value) of the strings the records of the model hold
Chars(text) ==
    CASE text = "A" -> <<"A">>
      [] text = "B" -> <<"B">>
      [] text = "a1" -> <<"a", "1">>
      [] text = "a2" -> <<"a", "2">>
      [] text = "100" -> <<"1", "0", "0">>
      [] text = "200" -> <<"2", "0", "0">>
      [] text = "300" -> <<"3", "0", "0">>
      [] text = "unknown" -> <<"u", "n", "k", "n", "o", "w", "n">>
      [] OTHER -> <<>>

Digit(d) ==
    CASE d = 0 -> "0" [] d = 1 -> "1" [] d = 2 -> "2" [] d = 3 -> "3"
      [] d = 4 -> "4" [] d = 5 -> "5" [] d = 6 -> "6" [] d = 7 -> "7"
      [] d = 8 -> "8" [] d = 9 -> "9"

\* str(n) of an integer 0..99
Digits(n) == IF n < 10 THEN <<Digit(n)>> ELSE <<Digit(n \div 10), Digit(n % 10)>>

\* str.lower()
Lower(text) ==
    [i \in DOMAIN text |->
        CASE text[i] = "A" -> "a" [] text[i] = "B" -> "b" [] OTHER -> text[i]]

\* needle in hay
Contains(hay, needle) ==
    \E i \in 0..(Len(hay) - Len(needle)) :
        SubSeq(hay, i + 1, i + Len(needle)) = needle

\* a value _get_nested_field returns: whether it is None, whether Python
\* takes it for true, and its str()
Value(none, truthy, str) == [none |-> none, truthy |-> truthy, str |-> str]

\* _get_nested_field for the paths of the model; a part that is no attribute
\* of where the path has got to gives None
GetNestedField(alert, path) ==
    CASE path = <<"agent", "name">> ->
             Value(FALSE, alert.agent.name # "", Chars(alert.agent.name))
      [] path = <<"agent", "id">> ->
             Value(FALSE, alert.agent.id # "", Chars(alert.agent.id))
      [] path = <<"rule", "id">> ->
             Value(FALSE, alert.rule.id # "", Chars(alert.rule.id))
      [] path = <<"rule", "level">> ->
             Value(FALSE, alert.rule.level # 0, Digits(alert.rule.level))
      [] OTHER -> Value(TRUE, FALSE, <<"N", "o", "n", "e">>)

\* _matches_query, query being in lower case
MatchesQuery(alert, query, fields) ==
    \E i \in DOMAIN fields :
        /\ GetNestedField(alert, fields[i]).truthy
        /\ Contains(Lower(GetNestedField(alert, fields[i]).str), query)

\* the identities of the time index, newest first
NewestFirst(ti) == [i \in 1..Len(ti) |-> ti[Len(ti) + 1 - i][2]]

\* the loop of search_alerts over reversed(self._time_index)
Matched(c, order, query, fields) ==
    Pick(order, {i \in DOMAIN order :
                    /\ order[i] \in Keys(c)
                    /\ MatchesQuery(ValueOf(c, order[i]), query, fields)})

\* "if filters:" of search_alerts
SearchFiltered(c, matched, filters) ==
    IF filters = NoFilters THEN matched
    ELSE Pick(matched, {i \in DOMAIN matched :
                           MatchesFilters(ValueOf(c, matched[i]), filters)})

\* search_alerts once the matches are known: the page, the total, and the
\* cache after the get calls made on the way
SearchFrom(c, order, matched, found, filters, limit, offset) ==
    [alerts |-> PageAlerts(c, Cached(Slice(found, offset, limit), c)),
     total |-> Len(found),
     cache |-> CacheGetAll(c, order
                              \o (IF filters = NoFilters THEN <<>> ELSE matched)
                              \o KeyGets(c, Slice(found, offset, limit)))]

SearchMatched(c, order, matched, filters, limit, offset) ==
    SearchFrom(c, order, matched, SearchFiltered(c, matched, filters),
               filters, limit, offset)

\* search_alerts
SearchAlerts(c, ti, query, fields, filters, limit, offset) ==
    SearchMatched(c, NewestFirst(ti),
                  Matched(c, NewestFirst(ti), Lower(query), fields),
                  filters, limit, offset)

\* SeverityLevel.from_rule_level
FromRuleLevel(level) ==
    IF level < 5 THEN "low"
    ELSE IF level < 10 THEN "medium"
    ELSE IF level < 13 THEN "high"
    ELSE "critical"

\* "if start_time and alert.timestamp < start_time: continue" and its like
\* for end_time
InWindow(ts, start_time, end_time) ==
    /\ ~(start_time # None /\ ts < start_time)
    /\ ~(end_time # None /\ ts > end_time)

\* the loop of get_severity_distribution over the time index
RECURSIVE SeverityLoop(_, _, _, _, _)
SeverityLoop(c, ids, start_time, end_time, result) ==
    IF ids = <<>> THEN result
    ELSE IF Head(ids) \notin Keys(c)
        THEN SeverityLoop(c, Tail(ids), start_time, end_time, result)
    ELSE IF ~InWindow(ValueOf(c, Head(ids)).timestamp, start_time, end_time)
        THEN SeverityLoop(c, Tail(ids), start_time, end_time, result)
    ELSE SeverityLoop(c, Tail(ids), start_time, end_time,
                      [result EXCEPT ![FromRuleLevel(ValueOf(c, Head(ids)).rule.level)] = @ + 1])

NoSeverity == [low |-> 0, medium |-> 0, high |-> 0, critical |-> 0]

\* the identities of the time index, in its order
IndexOrder(ti) == [i \in DOMAIN ti |-> ti[i][2]]

\* get_severity_distribution: the counts, and the cache after the get calls
GetSeverityDistribution(c, ti, start_time, end_time) ==
    [result |-> SeverityLoop(c, IndexOrder(ti), start_time, end_time, NoSeverity),
     cache |-> CacheGetAll(c, IndexOrder(ti))]

\* A timestamp of the model is a whole number of hours; the timeline works
\* in minutes.
Minutes(ts) == ts * 60

\* interval_map.get(interval, 60)
IntervalMinutes(interval) ==
    CASE interval = "1m" -> 1
      [] interval = "5m" -> 5
      [] interval = "15m" -> 15
      [] interval = "1h" -> 60
      [] interval = "6h" -> 360
      [] interval = "1d" -> 1440
      [] OTHER -> 60

TimelineBucket_Epoch(ts, start_time, bucket) == ts - (ts % bucket)

\* alert.timestamp - (alert.timestamp - start_time) % bucket
TimelineBucket(ts, start_time, bucket) == ts - ((ts - start_time) % bucket)

\* the records the loop of get_timeline_data counts, in the order of the
\* time index: those the cache still holds, inside start_time..end_time
TimelineCounted(c, ti, start_time, end_time) ==
    PageAlerts(c, Pick(IndexOrder(ti),
        {i \in DOMAIN ti :
            /\ ti[i][2] \in Keys(c)
            /\ ~(Minutes(ValueOf(c, ti[i][2]).timestamp) < start_time)
            /\ ~(Minutes(ValueOf(c, ti[i][2]).timestamp) > end_time)}))

\* the set s in ascending order
RECURSIVE Sorted(_)
Sorted(s) ==
    IF s = {} THEN <<>>
    ELSE LET least == CHOOSE x \in s : \A y \in s : x <= y
         IN <<least>> \o Sorted(s \ {least})

\* Counter.most_common(n) of the rule ids of alerts: greatest count first,
\* equal counts in the order the Counter first saw them
MostCommon(alerts, n) ==
    LET count(r) == Cardinality({i \in DOMAIN alerts : alerts[i].rule.id = r})
        first(r) == CHOOSE i \in DOMAIN alerts :
                        /\ alerts[i].rule.id = r
                        /\ \A j \in 1..(i - 1) : alerts[j].rule.id # r
        rules == {alerts[i].rule.id : i \in DOMAIN alerts}
        rank(r) == 1 + Cardinality({q \in rules :
                        \/ count(q) > count(r)
                        \/ count(q) = count(r) /\ first(q) < first(r)})
    IN [k \in 1..Min(n, Cardinality(rules)) |->
            LET r == CHOOSE q \in rules : rank(q) = k
            IN [rule_id |-> r, count |-> count(r)]]

\* the TimelineDataPoint of the bucket at ts
TimelinePoint(counted, ts, start_time, bucket) ==
    LET here == Pick(counted,
                     {i \in DOMAIN counted :
                         TimelineBucket(Minutes(counted[i].timestamp), start_time, bucket) = ts})
    IN [timestamp |-> ts,
        total_alerts |-> Len(here),
        severity_breakdown |->
            [band \in DOMAIN NoSeverity |->
                Cardinality({i \in DOMAIN here :
                                FromRuleLevel(here[i].rule.level) = band})],
        top_rules |-> MostCommon(here, 3)]

\* the timeline of the counted records
TimelineOf(counted, start_time, bucket) ==
    LET order == Sorted({TimelineBucket(Minutes(counted[i].timestamp), start_time, bucket) :
                            i \in DOMAIN counted})
    IN [k \in DOMAIN order |-> TimelinePoint(counted, order[k], start_time, bucket)]

\* get_timeline_data, its times in minutes: the timeline, the start it
\* counted from, and the cache after the get calls
GetTimelineData(c, ti, start_time, end_time, interval) ==
    IF ti = <<>> THEN [result |-> <<>>, start |-> None, end |-> None, cache |-> c]
    ELSE LET start == IF start_time # None THEN start_time ELSE Minutes(ti[1][1])
             end == IF end_time # None THEN end_time ELSE Minutes(ti[Len(ti)][1])
         IN [result |-> TimelineOf(TimelineCounted(c, ti, start, end), start,
                                   IntervalMinutes(interval)),
             start |-> start,
             end |-> end,
             cache |-> CacheGetAll(c, IndexOrder(ti))]

-----------------------------------------------------------------------------
(* Spec: one AlertService over one CacheService and an unchanged log file. *)
(* load and clear reset the cache's counters; between two of them at most  *)
(* MaxStoreOps other calls are made, counted in clock, and a list call is  *)
(* the last of them.                                                       *)

MaxStoreOps == 2    \* calls between two clears in Spec

StoreBodies == {"a", "c", "d", "e"}

StoreLineTexts == {ObjectLine(b) : b \in StoreBodies}

StoreFiles == {Join(ls, FALSE) : ls \in SeqsUpTo(StoreLineTexts, MaxLines)}

Hours == {1, 3}

\* the records and keys of direct put, get and delete calls
PutBodies == {"a", "c"}
PutKeys == {"a"}
AlertOf(b) == Process(RawOf(b), 3).alert
IdOf(b) == GenerateAlertId(Normalize(RawOf(b)))

BigLimit == MaxLines + 1

\* FilterParams with the fields of the model; agent_name, rule_group,
\* mitre_technique, start_time and end_time are left None
FilterParams(agent_id, rule_id, severity_min, severity_max) ==
    [agent_id |-> agent_id, rule_id |-> rule_id,
     severity_min |-> severity_min, severity_max |-> severity_max]

Filters ==
    {NoFilters,
     FilterParams("a1", NoneS, None, None),
     FilterParams("", NoneS, None, None),
     FilterParams(NoneS, "200", 5, None),
     FilterParams(NoneS, NoneS, None, 5),
     FilterParams("a1", "200", 5, 7)}

Pages == {<<BigLimit, 0>>, <<1, 1>>}

Init ==
    /\ file \in StoreFiles
    /\ parsed = NoParse
    /\ now = 3
    /\ cache \in {NewCache(n) : n \in 1..MaxCapacity}
    /\ agent_index = <<>>
    /\ rule_index = <<>>
    /\ time_index = <<>>
    /\ lastOp = NoOp
    /\ lastUse = <<>>
    /\ clock = 0
    /\ pending = NoPending
    /\ assigned = {}
    /\ before = {}
    /\ gets = NoGets
    /\ threads = NoThreads
    /\ input = NoInput

LoadDone(r, t) ==
    /\ now' = t
    /\ cache' = r.cache
    /\ agent_index' = r.agent_index
    /\ rule_index' = r.rule_index
    /\ time_index' = r.time_index
    /\ lastOp' = [op |-> "load", raised |-> r.raised, ret |-> r.ret,
                  failed |-> r.failed, start_time |-> r.start_time,
                  ids |-> {g.id : g \in r.given}]
    /\ clock' = 0
    /\ UNCHANGED <<file, parsed, lastUse, pending, gets, threads, input>>

\* load_recent_alerts(hours), called when utcnow() reads t; time does not
\* run backwards
Load ==
    \E hours \in Hours, t \in now..MaxNow :
        /\ LoadDone(LoadRecentAlerts(cache, file, t, hours), t)
        /\ UNCHANGED <<assigned, before>>

ListDone(r, filters, limit, offset) ==
    /\ clock < MaxStoreOps
    /\ cache' = r.cache
    /\ lastOp' = [op |-> "list", filters |-> filters, limit |-> limit,
                  offset |-> offset, alerts |-> r.alerts, total |-> r.total]
    /\ clock' = MaxStoreOps
    /\ UNCHANGED <<file, parsed, now, agent_index, rule_index, time_index,
                   lastUse, pending, assigned, before, gets, threads, input>>

\* get_alerts(limit, offset, filters)
List ==
    \E filters \in Filters, page \in Pages :
        \E order \in IF filters = NoFilters THEN {<<>>}
                     ELSE Perms(Candidates(filters, agent_index, rule_index, time_index)) :
            ListDone(GetAlerts(cache, time_index, page[1], page[2], filters, order),
                     filters, page[1], page[2])

SPut ==
    \E k \in PutKeys, v \in PutBodies :
        /\ clock < MaxStoreOps
        /\ PutOp(IdOf(k), AlertOf(v))
        /\ clock' = clock + 1
        /\ UNCHANGED <<file, parsed, now, agent_index, rule_index, time_index,
                       lastUse, pending, assigned, before, gets, threads, input>>

SGet ==
    \E k \in PutKeys :
        /\ clock < MaxStoreOps
        /\ GetOp(IdOf(k))
        /\ clock' = clock + 1
        /\ UNCHANGED <<file, parsed, now, agent_index, rule_index, time_index,
                       lastUse, pending, assigned, before, gets, threads, input>>

SDelete ==
    \E k \in PutKeys :
        /\ clock < MaxStoreOps
        /\ DeleteOp(IdOf(k))
        /\ clock' = clock + 1
        /\ UNCHANGED <<file, parsed, now, agent_index, rule_index, time_index,
                       lastUse, pending, assigned, before, gets, threads, input>>

SClear ==
    /\ ClearOp
    /\ clock' = 0
    /\ UNCHANGED <<file, parsed, now, agent_index, rule_index, time_index,
                   lastUse, pending, assigned, before, gets, threads, input>>

Next == Load \/ List \/ SPut \/ SGet \/ SDelete \/ SClear

Spec == Init /\ [][Next]_vars

-----------------------------------------------------------------------------
(* SpecIdentity: the loads of Spec alone, with the history of the          *)
(* identities they gave out.                                               *)

ILoad ==
    \E hours \in Hours, t \in now..MaxNow :
        /\ LoadDone(LoadRecentAlerts(cache, file, t, hours), t)
        /\ assigned' = assigned \cup LoadRecentAlerts(cache, file, t, hours).given
        /\ UNCHANGED before

IdentityNext == ILoad

SpecIdentity == Init /\ [][IdentityNext]_vars

\* C3: in every reachable state, after any sequence of put, get, delete,
\* clear and load calls, the cache holds at most max_size entries.
C3_SizeWithinCapacity == Len(cache._cache) <= cache.max_size

\* a load has just delivered more accepted records than the cache holds
C3_Witness ==
    /\ lastOp.op = "load"
    /\ lastOp.ret > cache.max_size
    /\ cache._evictions >= 1
    /\ Len(cache._cache) = cache.max_size

-----------------------------------------------------------------------------
(* The claims about load and list, under Spec *)

\* the records of the lines of the log file, first line first
StoreRecords == RecordsOf(FileLines(file))

\* the log file C2 is about, seen right after a load: every line a record
\* that process accepts, identities distinct, timestamps ascending and not
\* before the start of the window, and no more lines than the cache holds
C2_Pre ==
    LET recs == StoreRecords
    IN /\ lastOp.op = "load"
       /\ Len(recs) = Len(FileLines(file))
       /\ Len(recs) >= 1
       /\ Len(recs) <= cache.max_size
       /\ \A i \in DOMAIN recs :
             /\ Process(RawOf(recs[i].body), now).ok
             /\ TimestampOf(recs[i]) # None
             /\ TimestampOf(recs[i]) >= lastOp.start_time
       /\ \A i, j \in DOMAIN recs :
             i < j => /\ TimestampOf(recs[i]) <= TimestampOf(recs[j])
                      /\ IdOf(recs[i].body) # IdOf(recs[j].body)

\* C2: after a load over a log file whose N lines are all valid, accepted
\* records with distinct identities, timestamp-ascending and in the window,
\* N <= max_size, get_alerts(filters=None, limit >= N, offset=0) returns
\* each of the N records once, newest first, with total = N.
C2_LoadThenListAll ==
    [][(/\ C2_Pre
        /\ lastOp'.op = "list"
        /\ lastOp'.filters = NoFilters
        /\ lastOp'.limit = BigLimit
        /\ lastOp'.offset = 0) =>
          LET recs == StoreRecords
              N == Len(recs)
          IN /\ lastOp'.total = N
             /\ lastOp'.alerts =
                  [i \in 1..N |-> Process(RawOf(recs[N + 1 - i].body), now).alert]]_vars

\* C6: for every store state and every filters value, None included, the
\* total get_alerts returns is the number of records it returns for the
\* same filters with offset 0 and a limit no result reaches; an identity
\* that an index holds and the cache does not counts for neither.
C6_TotalCountsPage ==
    (lastOp.op = "list" /\ lastOp.offset = 0 /\ lastOp.limit = BigLimit) =>
        lastOp.total = Len(lastOp.alerts)

\* C7, as stated: get_alerts with agent_id = A returns only records whose
\* agent id is A, and with severity_min and/or severity_max only records
\* whose level is inside the range, whatever the other filters, the limit
\* and the offset.
C7_ListHonoursFilters ==
    (lastOp.op = "list" /\ lastOp.filters # NoFilters) =>
        \A i \in DOMAIN lastOp.alerts :
            /\ lastOp.filters.agent_id # NoneS =>
                  lastOp.alerts[i].agent.id = lastOp.filters.agent_id
            /\ lastOp.filters.severity_min # None =>
                  lastOp.alerts[i].rule.level >= lastOp.filters.severity_min
            /\ lastOp.filters.severity_max # None =>
                  lastOp.alerts[i].rule.level <= lastOp.filters.severity_max

\* C7, amended: the same, for an agent_id that is not the empty string.
C7_ListHonoursNonEmptyFilters ==
    (lastOp.op = "list" /\ lastOp.filters # NoFilters) =>
        \A i \in DOMAIN lastOp.alerts :
            /\ ~Falsy(lastOp.filters.agent_id) =>
                  lastOp.alerts[i].agent.id = lastOp.filters.agent_id
            /\ lastOp.filters.severity_min # None =>
                  lastOp.alerts[i].rule.level >= lastOp.filters.severity_min
            /\ lastOp.filters.severity_max # None =>
                  lastOp.alerts[i].rule.level <= lastOp.filters.severity_max

\* a list by agent, rule and severity range has returned a record while the
\* cache held a record of another agent and of a level outside the range
C7_Witness ==
    /\ lastOp.op = "list"
    /\ lastOp.filters = FilterParams("a1", "200", 5, 7)
    /\ Len(lastOp.alerts) >= 1
    /\ \E k \in Keys(cache) :
          /\ ValueOf(cache, k).agent.id # "a1"
          /\ ValueOf(cache, k).rule.level < 5

\* C10: the identity of a raw record is the same each time it is computed,
\* in one load or in two loads of the unchanged file, whatever the time of
\* the load, the state of the cache and the line the record is on: records
\* whose content after the renaming of the aliases is the same, the raw
\* timestamp string included, are given the same identity.
C10_IdentityDeterministic ==
    \A p, q \in assigned :
        Normalize(RawOf(p.body)) = Normalize(RawOf(q.body)) => p.id = q.id

\* two loads at different times have given identities to the same record
\* and to two records that differ only by an alias
C10_Witness ==
    /\ \E p, q \in assigned : p.body = "c" /\ q.body = "c" /\ p.at # q.at
    /\ \E p, q \in assigned : p.body = "c" /\ q.body = "d" /\ p.at # q.at

-----------------------------------------------------------------------------
(* SpecLoad: loads over log files that hold records process rejects or     *)
(* fails on and lines that make the reader raise, direct puts between the  *)
(* loads, and the removal of the log file after construction.              *)

LoadBodies == {"a", "g", "h", "i", "j", "k", "m"}

LoadLineTexts == {ObjectLine(b) : b \in LoadBodies} \cup {<<"7">>}

\* files of one line more, their first line (which a reverse read never
\* gets to) fixed: three records can be delivered, or two and then a line
\* the reader fails on
LongLineTexts == {ObjectLine(b) : b \in {"a", "k", "m"}} \cup {<<"7">>}

LongFiles ==
    {Join(<<ObjectLine("a")>> \o ls, FALSE) : ls \in [1..MaxLines -> LongLineTexts]}

LoadFiles ==
    {Join(ls, FALSE) : ls \in SeqsUpTo(LoadLineTexts, MaxLines)} \cup LongFiles

LoadInit ==
    /\ file \in LoadFiles
    /\ parsed = NoParse
    /\ now = 3
    /\ cache \in {NewCache(n) : n \in 1..MaxCapacity}
    /\ agent_index = <<>>
    /\ rule_index = <<>>
    /\ time_index = <<>>
    /\ lastOp = NoOp
    /\ lastUse = <<>>
    /\ clock = 0
    /\ pending = NoPending
    /\ assigned = {}
    /\ before = {}
    /\ gets = NoGets
    /\ threads = NoThreads
    /\ input = NoInput

\* the identities the three indexes hold
IndexIds(ai, ri, ti) ==
    UNION {Range(ai[k]) : k \in DOMAIN ai}
        \cup UNION {Range(ri[k]) : k \in DOMAIN ri}
        \cup {ti[i][2] : i \in DOMAIN ti}

\* load_recent_alerts(hours) at time t, with the history of what the store
\* held when it began
LLoad ==
    \E hours \in Hours, t \in now..MaxNow :
        /\ LoadDone(LoadRecentAlerts(cache, file, t, hours), t)
        /\ before' = Keys(cache) \cup IndexIds(agent_index, rule_index, time_index)
        /\ UNCHANGED assigned

\* the log file is removed after the service was constructed
RemoveFile ==
    /\ file # Missing
    /\ file' = Missing
    /\ lastOp' = [op |-> "unlink"]
    /\ UNCHANGED <<parsed, now, cache, agent_index, rule_index, time_index,
                   lastUse, clock, pending, assigned, before, gets, threads, input>>

LoadNext == LLoad \/ SPut \/ RemoveFile

SpecLoad == LoadInit /\ [][LoadNext]_vars

\* the records of the model that process is to turn down: a level outside
\* 0..15, an empty agent id, an agent that is no object, a level that is no
\* number
RejectedBodies == {"g", "h", "i", "j"}

\* what the reader delivered to the load that has just ended
Delivered == ParseAlerts(file, lastOp.start_time, None, None, TRUE)

\* how many of the records s have a body in B
RECURSIVE CountIn(_, _)
CountIn(s, B) ==
    IF s = <<>> THEN 0
    ELSE (IF Head(s).body \in B THEN 1 ELSE 0) + CountIn(Tail(s), B)

\* C11: every record a load has put in the cache has a non-empty id, a
\* timestamp, a non-empty agent id, a non-empty rule id and a level in
\* 0..15, process having returned it only then.
C11_CachedRecordsValid ==
    lastOp.op = "load" =>
        \A k \in Keys(cache) :
            /\ ValueOf(cache, k).id # ""
            /\ ValueOf(cache, k).timestamp # None
            /\ ValueOf(cache, k).agent.id # ""
            /\ ValueOf(cache, k).rule.id # ""
            /\ ValueOf(cache, k).rule.level \in 0..15

\* a load has turned down a record that fails validation, read from a line
\* the reverse reader reaches, and has cached another record
C11_Witness ==
    /\ lastOp.op = "load" /\ file # Missing
    /\ lastOp.failed >= 1
    /\ Len(cache._cache) >= 1
    /\ \E i \in DOMAIN Delivered.out : Delivered.out[i].body \in {"g", "h"}

\* C12: process never raises; a record it returns no result for, whatever
\* is missing or wrong in it, is counted as a failure by load, enters
\* neither the cache nor an index, and the load goes on with the next
\* record; load returns the number of accepted records.
C12_FailuresCountedLoadGoesOn ==
    (lastOp.op = "load" /\ file # Missing) =>
        /\ ~Delivered.raised => ~lastOp.raised
        /\ lastOp.failed = CountIn(Delivered.out, RejectedBodies)
        /\ lastOp.ret = CountIn(Delivered.out, Bodies \ RejectedBodies)
        /\ lastOp.ret = Len(time_index)
        /\ \A i \in DOMAIN Delivered.out :
              Delivered.out[i].body \in RejectedBodies =>
                  IdOf(Delivered.out[i].body) \notin
                      Keys(cache) \cup IndexIds(agent_index, rule_index, time_index)

\* a load has met a record process fails on and, after it, one it accepts
C12_Witness ==
    /\ lastOp.op = "load" /\ file # Missing /\ ~lastOp.raised
    /\ Len(Delivered.out) = 2
    /\ Delivered.out[1].body \in {"i", "j"}
    /\ Delivered.out[2].body \in {"k", "m"}
    /\ lastOp.ret = 1 /\ lastOp.failed = 1

\* C13: after a load that returns, the cache and the three indexes hold
\* only identities of records accepted during that load; nothing put by an
\* earlier load or an earlier direct put is left.
C13_OnlyThisLoad ==
    (lastOp.op = "load" /\ ~lastOp.raised) =>
        Keys(cache) \cup IndexIds(agent_index, rule_index, time_index)
            \subseteq lastOp.ids

\* a load has returned that began with an identity in the store which it
\* did not accept itself
C13_Witness ==
    /\ lastOp.op = "load" /\ ~lastOp.raised
    /\ lastOp.ids # {}
    /\ before \ lastOp.ids # {}

\* C14: when the log file is not there, load returns 0 without raising and
\* leaves the cache and the three indexes empty; any other exception of
\* the reader leaves load.
C14_MissingFileLoadsNothing ==
    lastOp.op = "load" =>
        /\ file = Missing =>
              /\ ~lastOp.raised
              /\ lastOp.ret = 0
              /\ cache._cache = <<>>
              /\ IndexIds(agent_index, rule_index, time_index) = {}
        /\ (file # Missing /\ Delivered.raised) => lastOp.raised

\* a load has found the file gone, the store holding records before it
C14_Witness ==
    /\ lastOp.op = "load" /\ file = Missing
    /\ before # {}

\* C24: whenever no load is running, the time index is in ascending order of
\* timestamp, after a load that ended by raising as after any other.
C24_TimeIndexSorted ==
    \A i, j \in DOMAIN time_index :
        i < j => time_index[i][1] <= time_index[j][1]

\* the identities of the records the last load accepted, in the order the
\* reader delivered them
RECURSIVE AcceptedIds(_)
AcceptedIds(out) ==
    IF out = <<>> THEN <<>>
    ELSE LET r == Process(RawOf(Head(out).body), now)
         IN (IF r.ok THEN <<r.alert.id>> ELSE <<>>) \o AcceptedIds(Tail(out))

\* the last load returned, having accepted more records than the cache
\* holds, all of different identities
Overfull ==
    /\ lastOp.op = "load" /\ ~lastOp.raised
    /\ Len(AcceptedIds(Delivered.out)) > cache.max_size
    /\ Cardinality(Range(AcceptedIds(Delivered.out))) = Len(AcceptedIds(Delivered.out))

\* the cache holds the records delivered last, those delivered before them
\* are evicted, and the three indexes hold every one of them
LastDeliveredKept ==
    LET acc == AcceptedIds(Delivered.out)
        N == Len(acc)
    IN /\ [i \in DOMAIN cache._cache |-> cache._cache[i][1]]
              = SubSeq(acc, N - cache.max_size + 1, N)
       /\ cache._evictions = N - cache.max_size
       /\ \A i \in 1..N :
             /\ \E j \in DOMAIN time_index : time_index[j][2] = acc[i]
             /\ \E a \in DOMAIN agent_index : acc[i] \in Range(agent_index[a])
             /\ \E r \in DOMAIN rule_index : acc[i] \in Range(rule_index[r])

\* no evicted record is older than a record the cache holds
OldestKept ==
    \A i, j \in DOMAIN time_index :
        (time_index[i][2] \in Keys(cache) /\ time_index[j][2] \notin Keys(cache)) =>
            time_index[i][1] <= time_index[j][1]

\* the records of the file are in ascending order of timestamp
Ascending(f) ==
    \A i, j \in DOMAIN FileLines(f) :
        (/\ i < j
         /\ LineIsObject(FileLines(f)[i]) /\ LineIsObject(FileLines(f)[j])
         /\ TimestampOf(LineRecord(FileLines(f)[i])) # None
         /\ TimestampOf(LineRecord(FileLines(f)[j])) # None) =>
            TimestampOf(LineRecord(FileLines(f)[i]))
                <= TimestampOf(LineRecord(FileLines(f)[j]))

\* C30, as stated: after a load that accepted N > max_size records of
\* different identities, the cache holds the max_size records delivered
\* last, which are the oldest of the window; the N - max_size delivered
\* first, the newest, are evicted, and their identities are still in the
\* three indexes.
C30_OldestKept ==
    Overfull => LastDeliveredKept /\ OldestKept

\* C30, amended: the records kept are the oldest when the file is in
\* ascending order of timestamp.
C30_LastDeliveredKept ==
    Overfull => LastDeliveredKept /\ (Ascending(file) => OldestKept)

\* a load of an ascending file delivered three accepted records to a cache
\* of two: the newest was evicted
C30_Witness ==
    /\ Overfull /\ Ascending(file)
    /\ Len(AcceptedIds(Delivered.out)) = 3
    /\ cache.max_size = 2
    /\ \E i, j \in DOMAIN time_index : time_index[i][1] < time_index[j][1]

-----------------------------------------------------------------------------
(* The claims about the cache's calls and counters *)

\* C15: a query leaves the cache's entries, their recency order, the
\* hit, miss, eviction and overwrite counters and the three indexes as
\* they were before the call.  Stated for get_alerts, the query of Spec.
C15_QueriesLeaveStateAlone ==
    [][lastOp'.op = "list" =>
          /\ cache' = cache
          /\ agent_index' = agent_index
          /\ rule_index' = rule_index
          /\ time_index' = time_index]_vars

\* the other entries of c, oldest first
Others(c, key) == Without(c._cache, key)

\* what C18 says of one get call
GetEffect ==
    lastOp'.op = "get" =>
        IF lastOp'.key \in Keys(cache)
        THEN /\ lastOp'.ret = ValueOf(cache, lastOp'.key)
             /\ cache'._cache[Len(cache'._cache)] = <<lastOp'.key, lastOp'.ret>>
             /\ SubSeq(cache'._cache, 1, Len(cache'._cache) - 1) = Others(cache, lastOp'.key)
             /\ cache'._hits = cache._hits + 1
             /\ cache'._misses = cache._misses
             /\ cache'._evictions = cache._evictions
             /\ cache'._overwrites = cache._overwrites
             /\ cache'.max_size = cache.max_size
        ELSE /\ lastOp'.ret = NoneS
             /\ cache' = [cache EXCEPT !._misses = @ + 1]

\* C18, as stated: get on a present key returns its value, makes it the
\* most recently used entry and adds 1 to the hits and changes nothing
\* else; get on an absent key returns None, adds 1 to the misses and
\* changes neither the entries nor their order; and after any calls since
\* the last clear, hits + misses is the number of get calls.
C18_GetCountsAndPromotes ==
    [][/\ GetEffect
       /\ cache'._hits + cache'._misses = gets'.clear]_vars

\* C18, amended: the same, the get calls counted since the last clear or
\* reset_stats.
C18_GetCountsSinceZeroed ==
    [][/\ GetEffect
       /\ cache'._hits + cache'._misses = gets'.zeroed]_vars

\* a get has hit in a cache of two or more entries, a get before it having
\* been counted and the counters set to zero since
C18_Witness ==
    /\ lastOp.op = "get" /\ lastOp.found
    /\ Len(cache._cache) >= 2
    /\ cache._hits >= 1
    /\ gets.clear > gets.zeroed

\* C20: put of a key that is in the cache replaces its value, adds 1 to
\* the overwrites, makes the entry the most recently used, keeps the order
\* of the other entries, leaves the size as it was and evicts nothing.
C20_OverwriteKeepsOthers ==
    [][(lastOp'.op = "put" /\ lastOp'.key \in Keys(cache)) =>
          /\ cache'._cache[Len(cache'._cache)] = <<lastOp'.key, lastOp'.value>>
          /\ SubSeq(cache'._cache, 1, Len(cache'._cache) - 1) = Others(cache, lastOp'.key)
          /\ Len(cache'._cache) = Len(cache._cache)
          /\ cache'._overwrites = cache._overwrites + 1
          /\ cache'._evictions = cache._evictions
          /\ cache'._hits = cache._hits
          /\ cache'._misses = cache._misses
          /\ cache'.max_size = cache.max_size]_vars

\* a put has replaced the value of the oldest entry of a full cache of two
\* or more entries
C20_Witness ==
    /\ lastOp.op = "put" /\ ~lastOp.fresh
    /\ cache._overwrites >= 1
    /\ cache.max_size >= 2
    /\ Len(cache._cache) = cache.max_size
    /\ cache._cache[Len(cache._cache)][2] # cache._cache[1][2]

-----------------------------------------------------------------------------
(* SpecConfig: the calls of SpecCache on a CacheService constructed with   *)
(* any max_size the configuration may hold, zero and negative included.    *)

CapacitiesGiven == {-1, 0} \cup 1..MaxCapacity

ConfigInit ==
    /\ file = <<>>
    /\ parsed = NoParse
    /\ now = 3
    /\ cache \in {NewCache(n) : n \in CapacitiesGiven}
    /\ agent_index = <<>>
    /\ rule_index = <<>>
    /\ time_index = <<>>
    /\ lastOp = NoOp
    /\ lastUse = <<>>
    /\ clock = 0
    /\ pending = NoPending
    /\ assigned = {}
    /\ before = {}
    /\ gets = NoGets
    /\ threads = NoThreads
    /\ input = NoInput

SpecConfig == ConfigInit /\ [][CacheNext]_vars

\* C17: no CacheService with max_size <= 0 exists to accept a put or a
\* get, construction with such a max_size having failed.
C17_NoCacheWithoutCapacity ==
    lastOp.op \in {"put", "get"} => cache.max_size >= 1

-----------------------------------------------------------------------------
(* SpecThreads: threads calling into one CacheService.  A step is one      *)
(* access to the entries or to a counter: "self._hits += 1" reads the      *)
(* counter in one step and writes it in the next, and another thread may   *)
(* run in between unless the lock keeps it out.  An access to _cache is    *)
(* taken together with the counter access next to it, no step of another   *)
(* thread being able to tell the two apart (reset_stats, the one call      *)
(* that runs without the lock, does not touch _cache).                      *)

Tids == 1..2
ThreadKeys == 1..2
MaxCalls == 4       \* calls made by the threads together

\* a thread that is in no call
Idle == [call |-> "none", pc |-> "idle", key |-> 0, tmp |-> 0,
         seen |-> [none |-> TRUE]]

Calls ==
    {"put", "get", "delete", "clear", "size", "get_stats", "reset_stats",
     "get_all_keys", "contains"}

TakesLock_NotClear(call) == call \notin {"reset_stats", "clear"}

\* the methods whose body is inside "with self._lock"
TakesLock(call) == call # "reset_stats"

\* where the body of a method begins
First(call) ==
    CASE call = "put" -> "put1"
      [] call = "get" -> "get1"
      [] call = "delete" -> "delete1"
      [] call = "clear" -> "clear1"
      [] call = "get_stats" -> "stats1"
      [] call = "reset_stats" -> "reset1"
      [] OTHER -> "read1"

ThreadInit ==
    /\ file = <<>>
    /\ parsed = NoParse
    /\ now = 3
    /\ cache \in {NewCache(n) : n \in 1..MaxCapacity}
    /\ agent_index = <<>>
    /\ rule_index = <<>>
    /\ time_index = <<>>
    /\ lastOp = NoOp
    /\ lastUse = <<>>
    /\ clock = 0
    /\ pending = NoPending
    /\ assigned = {}
    /\ before = {}
    /\ gets = NoGets
    /\ threads = [lock |-> 0, t |-> [t \in Tids |-> Idle]]
    /\ input = NoInput

\* thread t moves to pc, its fields tmp and seen as given
Goto(t, pc, tmp, seen) ==
    threads' = [threads EXCEPT !.t[t].pc = pc, !.t[t].tmp = tmp,
                               !.t[t].seen = seen]

At(t, pc) == threads.t[t].pc = pc

\* a thread calls a method: it waits for the lock, or enters the body
TCall ==
    \E t \in Tids, call \in Calls, key \in ThreadKeys :
        /\ At(t, "idle")
        /\ clock < MaxCalls
        /\ clock' = clock + 1
        /\ threads' = [threads EXCEPT !.t[t] =
                         [Idle EXCEPT !.call = call,
                                      !.key = IF call \in {"put", "get", "delete", "contains"}
                                              THEN key ELSE 0,
                                      !.pc = IF TakesLock(call) THEN "lock"
                                             ELSE First(call)]]
        /\ UNCHANGED <<cache, lastOp>>
        /\ UNCHANGED <<file, parsed, now, agent_index, rule_index, time_index,
                       lastUse, pending, assigned, before, gets, input>>

\* with self._lock: entered when no other thread holds it
TAcquire ==
    \E t \in Tids :
        /\ At(t, "lock")
        /\ threads.lock = 0
        /\ threads' = [threads EXCEPT !.lock = t,
                                      !.t[t].pc = First(threads.t[t].call)]
        /\ UNCHANGED <<cache, lastOp, clock>>
        /\ UNCHANGED <<file, parsed, now, agent_index, rule_index, time_index,
                       lastUse, pending, assigned, before, gets, input>>

\* put, lines 40-42: the old entry deleted, _overwrites read
TPut1 ==
    \E t \in Tids :
        /\ At(t, "put1")
        /\ IF threads.t[t].key \in Keys(cache)
           THEN /\ cache' = [cache EXCEPT !._cache = Without(@, threads.t[t].key)]
                /\ Goto(t, "put2", cache._overwrites, threads.t[t].seen)
           ELSE /\ cache' = cache
                /\ Goto(t, "put3", 0, threads.t[t].seen)
        /\ UNCHANGED <<lastOp, clock>>
        /\ UNCHANGED <<file, parsed, now, agent_index, rule_index, time_index,
                       lastUse, pending, assigned, before, gets, input>>

\* put, line 42: _overwrites written
TPut2 ==
    \E t \in Tids :
        /\ At(t, "put2")
        /\ cache' = [cache EXCEPT !._overwrites = threads.t[t].tmp + 1]
        /\ Goto(t, "put3", 0, threads.t[t].seen)
        /\ UNCHANGED <<lastOp, clock>>
        /\ UNCHANGED <<file, parsed, now, agent_index, rule_index, time_index,
                       lastUse, pending, assigned, before, gets, input>>

\* put, lines 44-48: the entry set, the oldest popped, _evictions read
TPut3 ==
    \E t \in Tids :
        /\ At(t, "put3")
        /\ LET entries == Append(cache._cache, <<threads.t[t].key, "x">>)
           IN IF Len(entries) > cache.max_size
              THEN /\ cache' = [cache EXCEPT !._cache = Tail(entries)]
                   /\ Goto(t, "put4", cache._evictions, threads.t[t].seen)
              ELSE /\ cache' = [cache EXCEPT !._cache = entries]
                   /\ Goto(t, "ret", 0, threads.t[t].seen)
        /\ UNCHANGED <<lastOp, clock>>
        /\ UNCHANGED <<file, parsed, now, agent_index, rule_index, time_index,
                       lastUse, pending, assigned, before, gets, input>>

\* put, line 48: _evictions written
TPut4 ==
    \E t \in Tids :
        /\ At(t, "put4")
        /\ cache' = [cache EXCEPT !._evictions = threads.t[t].tmp + 1]
        /\ Goto(t, "ret", 0, threads.t[t].seen)
        /\ UNCHANGED <<lastOp, clock>>
        /\ UNCHANGED <<file, parsed, now, agent_index, rule_index, time_index,
                       lastUse, pending, assigned, before, gets, input>>

\* get, lines 52-57: _misses read, or the entry moved to the end and
\* _hits read
TGet1 ==
    \E t \in Tids :
        /\ At(t, "get1")
        /\ IF threads.t[t].key \notin Keys(cache)
           THEN /\ cache' = cache
                /\ Goto(t, "get_miss", cache._misses, [ret |-> NoneS])
           ELSE /\ cache' = [cache EXCEPT !._cache =
                                Append(Without(@, threads.t[t].key),
                                       <<threads.t[t].key, ValueOf(cache, threads.t[t].key)>>)]
                /\ Goto(t, "get_hit", cache._hits,
                        [ret |-> ValueOf(cache, threads.t[t].key)])
        /\ UNCHANGED <<lastOp, clock>>
        /\ UNCHANGED <<file, parsed, now, agent_index, rule_index, time_index,
                       lastUse, pending, assigned, before, gets, input>>

\* get, line 53: _misses written
TGetMiss ==
    \E t \in Tids :
        /\ At(t, "get_miss")
        /\ cache' = [cache EXCEPT !._misses = threads.t[t].tmp + 1]
        /\ Goto(t, "ret", 0, threads.t[t].seen)
        /\ UNCHANGED <<lastOp, clock>>
        /\ UNCHANGED <<file, parsed, now, agent_index, rule_index, time_index,
                       lastUse, pending, assigned, before, gets, input>>

\* get, line 57: _hits written
TGetHit ==
    \E t \in Tids :
        /\ At(t, "get_hit")
        /\ cache' = [cache EXCEPT !._hits = threads.t[t].tmp + 1]
        /\ Goto(t, "ret", 0, threads.t[t].seen)
        /\ UNCHANGED <<lastOp, clock>>
        /\ UNCHANGED <<file, parsed, now, agent_index, rule_index, time_index,
                       lastUse, pending, assigned, before, gets, input>>

\* delete, line 62
TDelete ==
    \E t \in Tids :
        /\ At(t, "delete1")
        /\ cache' = [cache EXCEPT !._cache = Without(@, threads.t[t].key)]
        /\ Goto(t, "ret", 0, [ret |-> threads.t[t].key \in Keys(cache)])
        /\ UNCHANGED <<lastOp, clock>>
        /\ UNCHANGED <<file, parsed, now, agent_index, rule_index, time_index,
                       lastUse, pending, assigned, before, gets, input>>

\* clear, lines 66-67: the entries dropped; reset_stats is called next
TClear1 ==
    \E t \in Tids :
        /\ At(t, "clear1")
        /\ cache' = [cache EXCEPT !._cache = <<>>]
        /\ Goto(t, "reset1", Len(cache._cache), threads.t[t].seen)
        /\ UNCHANGED <<lastOp, clock>>
        /\ UNCHANGED <<file, parsed, now, agent_index, rule_index, time_index,
                       lastUse, pending, assigned, before, gets, input>>

\* reset_stats, lines 96-99, called from clear or on its own: one counter
\* written at a time
TReset1 ==
    \E t \in Tids :
        /\ At(t, "reset1")
        /\ cache' = [cache EXCEPT !._hits = 0]
        /\ Goto(t, "reset2", threads.t[t].tmp, threads.t[t].seen)
        /\ UNCHANGED <<lastOp, clock>>
        /\ UNCHANGED <<file, parsed, now, agent_index, rule_index, time_index,
                       lastUse, pending, assigned, before, gets, input>>

TReset2 ==
    \E t \in Tids :
        /\ At(t, "reset2")
        /\ cache' = [cache EXCEPT !._misses = 0]
        /\ Goto(t, "reset3", threads.t[t].tmp, threads.t[t].seen)
        /\ UNCHANGED <<lastOp, clock>>
        /\ UNCHANGED <<file, parsed, now, agent_index, rule_index, time_index,
                       lastUse, pending, assigned, before, gets, input>>

TReset3 ==
    \E t \in Tids :
        /\ At(t, "reset3")
        /\ cache' = [cache EXCEPT !._evictions = 0]
        /\ Goto(t, "reset4", threads.t[t].tmp, threads.t[t].seen)
        /\ UNCHANGED <<lastOp, clock>>
        /\ UNCHANGED <<file, parsed, now, agent_index, rule_index, time_index,
                       lastUse, pending, assigned, before, gets, input>>

TReset4 ==
    \E t \in Tids :
        /\ At(t, "reset4")
        /\ cache' = [cache EXCEPT !._overwrites = 0]
        /\ Goto(t, "ret", threads.t[t].tmp, threads.t[t].seen)
        /\ UNCHANGED <<lastOp, clock>>
        /\ UNCHANGED <<file, parsed, now, agent_index, rule_index, time_index,
                       lastUse, pending, assigned, before, gets, input>>

\* get_stats, line 81: total = self._hits + self._misses
TStats1 ==
    \E t \in Tids :
        /\ At(t, "stats1")
        /\ Goto(t, "stats2", cache._hits + cache._misses, threads.t[t].seen)
        /\ UNCHANGED <<cache, lastOp, clock>>
        /\ UNCHANGED <<file, parsed, now, agent_index, rule_index, time_index,
                       lastUse, pending, assigned, before, gets, input>>

\* get_stats, lines 84-93: the dictionary built
TStats2 ==
    \E t \in Tids :
        /\ At(t, "stats2")
        /\ Goto(t, "ret", 0,
                [size |-> Len(cache._cache), max_size |-> cache.max_size,
                 hits |-> cache._hits, misses |-> cache._misses,
                 evictions |-> cache._evictions,
                 overwrites |-> cache._overwrites,
                 total_requests |-> threads.t[t].tmp])
        /\ UNCHANGED <<cache, lastOp, clock>>
        /\ UNCHANGED <<file, parsed, now, agent_index, rule_index, time_index,
                       lastUse, pending, assigned, before, gets, input>>

\* size, get_all_keys, contains: one look at the entries
TRead ==
    \E t \in Tids :
        /\ At(t, "read1")
        /\ Goto(t, "ret", 0,
                CASE threads.t[t].call = "size" -> [ret |-> Len(cache._cache)]
                  [] threads.t[t].call = "contains" ->
                         [ret |-> threads.t[t].key \in Keys(cache)]
                  [] OTHER ->
                         [ret |-> [i \in DOMAIN cache._cache |-> cache._cache[i][1]]])
        /\ UNCHANGED <<cache, lastOp, clock>>
        /\ UNCHANGED <<file, parsed, now, agent_index, rule_index, time_index,
                       lastUse, pending, assigned, before, gets, input>>

\* the method returns, the lock released on the way out of "with"
TReturn ==
    \E t \in Tids :
        /\ At(t, "ret")
        /\ threads' = [threads EXCEPT
                         !.lock = IF TakesLock(threads.t[t].call) THEN 0 ELSE @,
                         !.t[t] = Idle]
        /\ lastOp' = [op |-> threads.t[t].call, thread |-> t,
                      seen |-> threads.t[t].seen]
        /\ UNCHANGED <<cache, clock>>
        /\ UNCHANGED <<file, parsed, now, agent_index, rule_index, time_index,
                       lastUse, pending, assigned, before, gets, input>>

ThreadNext ==
    \/ TCall \/ TAcquire
    \/ TPut1 \/ TPut2 \/ TPut3 \/ TPut4
    \/ TGet1 \/ TGetMiss \/ TGetHit
    \/ TDelete
    \/ TClear1 \/ TReset1 \/ TReset2 \/ TReset3 \/ TReset4
    \/ TStats1 \/ TStats2
    \/ TRead
    \/ TReturn

SpecThreads == ThreadInit /\ [][ThreadNext]_vars

\* the call of thread t has made its first access to the entries or the
\* counters and has not made its last
Inside(t) ==
    \/ threads.t[t].pc \in {"put2", "put3", "put4", "get_miss", "get_hit",
                             "reset2", "reset3", "reset4", "stats2"}
    \/ threads.t[t].call = "clear" /\ At(t, "reset1")

\* thread t has read a counter that it is about to write, and the counter
\* still holds what it read
ReadIsFresh(t) ==
    /\ At(t, "put2") => threads.t[t].tmp = cache._overwrites
    /\ At(t, "put4") => threads.t[t].tmp = cache._evictions
    /\ At(t, "get_miss") => threads.t[t].tmp = cache._misses
    /\ At(t, "get_hit") => threads.t[t].tmp = cache._hits

\* C16: the public operations of the cache are mutually exclusive: no two
\* threads are at once between the first and the last access of their
\* calls to the entries or the counters, and so a counter that a call is
\* about to write still holds the value the call read (no update of
\* another call is lost under the write).
C16_MutuallyExclusive ==
    /\ \A t, u \in Tids : t # u => ~(Inside(t) /\ Inside(u))
    /\ \A t \in Tids : ReadIsFresh(t)

\* thread u is in clear, the entries dropped and not every counter zeroed
MidClear(u) ==
    /\ threads.t[u].call = "clear"
    /\ threads.t[u].pc \in {"reset1", "reset2", "reset3", "reset4"}

\* thread t is in the body of a method that looks at the entries or the
\* counters
Observing(t) ==
    /\ threads.t[t].call \notin {"none", "reset_stats"}
    /\ threads.t[t].pc \notin {"idle", "lock"}

\* C19: clear ends with no entry and every counter zero, and while a clear
\* is between dropping the entries and zeroing the last counter no other
\* thread is in the body of an operation that looks at the entries or the
\* counters.
C19_ClearAtomic ==
    \A u \in Tids :
        /\ threads.t[u].call = "clear" /\ At(u, "ret") =>
              /\ cache._cache = <<>>
              /\ cache._hits = 0 /\ cache._misses = 0
              /\ cache._evictions = 0 /\ cache._overwrites = 0
        /\ MidClear(u) => \A t \in Tids \ {u} : ~Observing(t)

\* a clear has dropped the entries with a counter still non-zero, and
\* get_stats called by another thread waits for the lock
C19_Witness ==
    \E t, u \in Tids :
        /\ t # u
        /\ MidClear(u)
        /\ threads.t[u].tmp >= 1
        /\ cache._hits + cache._misses + cache._evictions + cache._overwrites >= 1
        /\ threads.t[t].call = "get_stats"
        /\ At(t, "lock")

-----------------------------------------------------------------------------
(* SpecProcessor: the normalizer called on a raw record, and process_batch *)
(* called on a batch of raw records with enrichment steps registered.      *)

MaxEnrichers == 2   \* enrichment steps registered
MaxBatch == 2       \* raw records of a batch

NormKeys ==
    {"source_ip", "src_ip", "srcip", "destination_ip", "dest_ip", "dstip",
     "full_log"}
NormValues == {"10.0.0.1", "10.0.0.2"}

RawRecords == UNION {[K -> NormValues] : K \in SUBSET NormKeys}

BatchBodies == {"a", "f", "g", "k"}

ProcessorInputs ==
    {[raw |-> r] : r \in RawRecords}
        \cup {[enrichers |-> es, batch |-> bs] :
                 es \in SeqsUpTo(EnricherSteps, MaxEnrichers),
                 bs \in SeqsUpTo(BatchBodies, MaxBatch) \ {<<>>}}

ProcessorInit ==
    /\ file = <<>>
    /\ parsed = NoParse
    /\ now = 3
    /\ cache = NewCache(1)
    /\ agent_index = <<>>
    /\ rule_index = <<>>
    /\ time_index = <<>>
    /\ lastOp = NoOp
    /\ lastUse = <<>>
    /\ clock = 0
    /\ pending = NoPending
    /\ assigned = {}
    /\ before = {}
    /\ gets = NoGets
    /\ threads = NoThreads
    /\ input \in ProcessorInputs

\* normalize(raw): the pops are done on raw.copy(), the caller's record is
\* left as it was
NormalizeCall ==
    /\ "raw" \in DOMAIN input
    /\ lastOp' = [op |-> "normalize", raw |-> input.raw,
                  ret |-> Normalize(input.raw)]
    /\ UNCHANGED <<file, parsed, now, cache, agent_index, rule_index,
                   time_index, lastUse, clock, pending, assigned, before,
                   gets, threads, input>>

\* process_batch(raw_alerts) with input.enrichers registered
ProcessBatchCall ==
    /\ "batch" \in DOMAIN input
    /\ lastOp' = [op |-> "process_batch",
                  ret |-> ProcessBatch([i \in DOMAIN input.batch |-> RawOf(input.batch[i])],
                                       now, input.enrichers)]
    /\ UNCHANGED <<file, parsed, now, cache, agent_index, rule_index,
                   time_index, lastUse, clock, pending, assigned, before,
                   gets, threads, input>>

ProcessorNext == NormalizeCall \/ ProcessBatchCall

SpecProcessor == ProcessorInit /\ [][ProcessorNext]_vars

Aliases == {"source_ip", "src_ip", "destination_ip", "dest_ip"}

\* the values the raw record has under the given keys
ValuesUnder(raw, keys) == {raw[k] : k \in keys \cap DOMAIN raw}

\* C28: normalize moves what is under source_ip and src_ip to srcip and what
\* is under destination_ip and dest_ip to dstip; every other key of the raw
\* record, srcip and dstip among them, is in the result with the value it
\* had, and the caller's record is as it was.
C28_NormalizeKeepsOtherKeys ==
    lastOp.op = "normalize" =>
        /\ DOMAIN lastOp.ret \cap Aliases = {}
        /\ ValuesUnder(lastOp.raw, {"source_ip", "src_ip"}) # {} =>
              /\ "srcip" \in DOMAIN lastOp.ret
              /\ lastOp.ret.srcip \in ValuesUnder(lastOp.raw, {"source_ip", "src_ip", "srcip"})
        /\ ValuesUnder(lastOp.raw, {"destination_ip", "dest_ip"}) # {} =>
              /\ "dstip" \in DOMAIN lastOp.ret
              /\ lastOp.ret.dstip \in ValuesUnder(lastOp.raw, {"destination_ip", "dest_ip", "dstip"})
        /\ \A k \in DOMAIN lastOp.raw \ Aliases :
              k \in DOMAIN lastOp.ret /\ lastOp.ret[k] = lastOp.raw[k]
        /\ input.raw = lastOp.raw

\* what the steps make of a record when a step that raises is skipped
RECURSIVE Skipping(_, _)
Skipping(alert, enrichers) ==
    IF enrichers = <<>> THEN alert
    ELSE Skipping(IF Head(enrichers).raises THEN alert
                  ELSE Effect(Head(enrichers), alert),
                  Tail(enrichers))

\* the records of a batch that can be built, each as the steps that do not
\* raise leave it, those turned down by the validator left out
RECURSIVE Enriched(_, _)
Enriched(batch, enrichers) ==
    IF batch = <<>> THEN <<>>
    ELSE LET raw == Normalize(RawOf(Head(batch)))
             alert == Skipping(BuildAlert(raw, now), enrichers)
         IN (IF ~BuildRaises(raw) /\ Validate(alert) THEN <<alert>> ELSE <<>>)
                \o Enriched(Tail(batch), enrichers)

\* C22: the enrichment steps run in registration order; a step that raises
\* leaves the record as it was before the step, the later steps run on it,
\* and the record is validated and returned, as is every other record of
\* the batch.
C22_FailingStepSkipped ==
    lastOp.op = "process_batch" =>
        lastOp.ret = Enriched(input.batch, input.enrichers)

-----------------------------------------------------------------------------
(* SpecQuery: search, the severity distribution and the timeline over a    *)
(* loaded store.  The records are of all four severity bands, of level 0,  *)
(* and of four rules; the cache holds two of them or all of them.          *)

MaxQueryLines == 4    \* lines of a log file after its first

QueryBodies == {"a", "b", "c", "m", "n"}

QueryFiles ==
    {Join(<<ObjectLine("a")>> \o ls, FALSE) :
        ls \in SeqsUpTo({ObjectLine(b) : b \in QueryBodies}, MaxQueryLines)}

QueryInit ==
    /\ file \in QueryFiles
    /\ parsed = NoParse
    /\ now = 3
    /\ cache \in {NewCache(MaxCapacity), NewCache(MaxQueryLines)}
    /\ agent_index = <<>>
    /\ rule_index = <<>>
    /\ time_index = <<>>
    /\ lastOp = NoOp
    /\ lastUse = <<>>
    /\ clock = 0
    /\ pending = NoPending
    /\ assigned = {}
    /\ before = {}
    /\ gets = NoGets
    /\ threads = NoThreads
    /\ input = NoInput

\* the query strings, the field lists (each path split at its dots) and the
\* filters and pages search is called with
Queries == {<<"B">>, <<"0">>, <<"1", "2">>}

FieldLists ==
    {<< <<"agent", "name">> >>,
     << <<"rule", "level">> >>,
     << <<"rule", "nope">>, <<"rule", "id">> >>}

SearchPages ==
    {<<NoFilters, MaxQueryLines + 1, 0>>,
     <<NoFilters, 1, 1>>,
     <<FilterParams(NoneS, NoneS, 5, None), MaxQueryLines + 1, 0>>}

\* the bounds of a window, in hours, and of the timeline, in minutes
WindowStarts == {None, 2}
WindowEnds == {None, 2}
TimelineStarts == {None, 90}
TimelineEnds == {None, 120}
Intervals == {"15m", "6h", "2h"}

\* the load of the application's start (main.py, lifespan), hours being
\* what the configuration says; the queries are served after it
Startup ==
    /\ lastOp = NoOp
    /\ \E hours \in Hours :
           LoadDone(LoadRecentAlerts(cache, file, now, hours), now)
    /\ UNCHANGED <<assigned, before>>

QueryDone(c, op) ==
    /\ lastOp # NoOp
    /\ clock < MaxStoreOps
    /\ cache' = c
    /\ lastOp' = op
    /\ clock' = MaxStoreOps
    /\ UNCHANGED <<file, parsed, now, agent_index, rule_index, time_index,
                   lastUse, pending, assigned, before, gets, threads, input>>

\* search_alerts(query, fields, filters, limit, offset)
Search ==
    \E query \in Queries, fields \in FieldLists, page \in SearchPages :
        LET r == SearchAlerts(cache, time_index, query, fields,
                              page[1], page[2], page[3])
        IN QueryDone(r.cache,
                     [op |-> "search", query |-> query, fields |-> fields,
                      filters |-> page[1], limit |-> page[2], offset |-> page[3],
                      alerts |-> r.alerts, total |-> r.total])

\* get_severity_distribution(start_time, end_time)
Severity ==
    \E start_time \in WindowStarts, end_time \in WindowEnds :
        LET r == GetSeverityDistribution(cache, time_index, start_time, end_time)
        IN QueryDone(r.cache,
                     [op |-> "severity", start_time |-> start_time,
                      end_time |-> end_time, ret |-> r.result])

\* get_timeline_data(start_time, end_time, interval)
Timeline ==
    \E start_time \in TimelineStarts, end_time \in TimelineEnds,
       interval \in Intervals :
        LET r == GetTimelineData(cache, time_index, start_time, end_time, interval)
        IN QueryDone(r.cache,
                     [op |-> "timeline", interval |-> interval,
                      start |-> r.start, end |-> r.end, ret |-> r.result])

QueryNext == Startup \/ Search \/ Severity \/ Timeline

SpecQuery == QueryInit /\ [][QueryNext]_vars

\* the identities the cache holds whose record's timestamp is inside the
\* window; None leaves a side of the window open
InsideWindow(start_time, end_time) ==
    {id \in Keys(cache) :
        /\ start_time = None \/ ValueOf(cache, id).timestamp >= start_time
        /\ end_time = None \/ ValueOf(cache, id).timestamp <= end_time}

\* the band of a level as the specification words it
BandOf(level) ==
    CASE level < 5 -> "low"
      [] level >= 5 /\ level < 10 -> "medium"
      [] level >= 10 /\ level < 13 -> "high"
      [] OTHER -> "critical"

\* no identity is twice in the time index
IndexedOnce == \A i, j \in DOMAIN time_index :
                   time_index[i][2] = time_index[j][2] => i = j

\* C23: the severity distribution has the four bands low, medium, high and
\* critical; each band's count is the number of different records the cache
\* holds with a timestamp in the window and a level of that band, so the
\* four counts add up to the number of such records.
C23_EachRecordCountedOnce ==
    lastOp.op = "severity" =>
        /\ DOMAIN lastOp.ret = {"low", "medium", "high", "critical"}
        /\ \A band \in DOMAIN lastOp.ret :
              lastOp.ret[band] =
                  Cardinality({id \in InsideWindow(lastOp.start_time, lastOp.end_time) :
                                  BandOf(ValueOf(cache, id).rule.level) = band})
        /\ lastOp.ret.low + lastOp.ret.medium + lastOp.ret.high + lastOp.ret.critical
              = Cardinality(InsideWindow(lastOp.start_time, lastOp.end_time))

\* the record has, under one of the paths, a value whose text holds the
\* query, letter case aside
HoldsQuery(alert, query, fields) ==
    \E i \in DOMAIN fields :
        /\ ~GetNestedField(alert, fields[i]).none
        /\ Contains(Lower(GetNestedField(alert, fields[i]).str), Lower(query))

\* the identities of the time index whose record the cache holds, the record
\* holding the query of the last search and passing its filters
SearchMatches ==
    {id \in Keys(cache) \cap {time_index[i][2] : i \in DOMAIN time_index} :
        /\ HoldsQuery(ValueOf(cache, id), lastOp.query, lastOp.fields)
        /\ lastOp.filters = NoFilters \/ MatchesFilters(ValueOf(cache, id), lastOp.filters)}

\* C21: over a time index that holds no identity twice, search returns the
\* records the cache holds that have, under at least one of the named paths,
\* a value whose text contains the query whatever the case of the letters: a
\* page of them, newest first, and as total the number of all of them.
C21_SearchFindsEveryMatch ==
    lastOp.op = "search" /\ IndexedOnce =>
        /\ lastOp.total = Cardinality(SearchMatches)
        /\ \A i \in DOMAIN lastOp.alerts : lastOp.alerts[i].id \in SearchMatches
        /\ lastOp.offset = 0 /\ lastOp.limit >= lastOp.total =>
              {lastOp.alerts[i].id : i \in DOMAIN lastOp.alerts} = SearchMatches
        /\ \A i, j \in DOMAIN lastOp.alerts :
              i < j => lastOp.alerts[i].timestamp >= lastOp.alerts[j].timestamp

\* the intervals the timeline is specified for
Recognized == {"1m", "5m", "15m", "1h", "6h", "1d"}

\* the entries of the time index whose record the cache holds, its timestamp
\* within start..end of the last timeline call and in the bucket at b
InBucket(b, interval) ==
    {i \in DOMAIN time_index :
        /\ time_index[i][2] \in Keys(cache)
        /\ lastOp.start <= Minutes(ValueOf(cache, time_index[i][2]).timestamp)
        /\ Minutes(ValueOf(cache, time_index[i][2]).timestamp) <= lastOp.end
        /\ b <= Minutes(ValueOf(cache, time_index[i][2]).timestamp)
        /\ Minutes(ValueOf(cache, time_index[i][2]).timestamp) < b + interval}

\* how often the rule occurs among the entries
RuleCount(entries, rule_id) ==
    Cardinality({i \in entries : ValueOf(cache, time_index[i][2]).rule.id = rule_id})

\* C29: for a recognized interval, every bucket of the timeline is at start
\* plus a whole number (none or more) of intervals; the buckets are in
\* ascending order; a bucket's total is the number of entries of the time
\* index with a cached record inside start..end and inside the bucket, so
\* every such record is counted, in the bucket its timestamp falls into and
\* in no other; the total is the sum of the four band counts; the top rules
\* are at most three different rule ids, each with its count within the
\* bucket, no count greater than the one listed before it.
C29_TimelineBuckets ==
    lastOp.op = "timeline" /\ lastOp.interval \in Recognized =>
        LET ret == lastOp.ret
            interval == IntervalMinutes(lastOp.interval)
        IN /\ \A k \in DOMAIN ret :
                 /\ ret[k].timestamp >= lastOp.start
                 /\ (ret[k].timestamp - lastOp.start) % interval = 0
                 /\ ret[k].total_alerts = Cardinality(InBucket(ret[k].timestamp, interval))
                 /\ ret[k].total_alerts =
                        ret[k].severity_breakdown.low + ret[k].severity_breakdown.medium
                        + ret[k].severity_breakdown.high + ret[k].severity_breakdown.critical
                 /\ Len(ret[k].top_rules) <= 3
                 /\ \A i, j \in DOMAIN ret[k].top_rules :
                        i < j => /\ ret[k].top_rules[i].rule_id # ret[k].top_rules[j].rule_id
                                 /\ ret[k].top_rules[i].count >= ret[k].top_rules[j].count
                 /\ \A i \in DOMAIN ret[k].top_rules :
                        ret[k].top_rules[i].count =
                            RuleCount(InBucket(ret[k].timestamp, interval),
                                      ret[k].top_rules[i].rule_id)
           /\ \A k, l \in DOMAIN ret : k < l => ret[k].timestamp < ret[l].timestamp
           /\ \A i \in InBucket(lastOp.start, lastOp.end - lastOp.start + 1) :
                 \E k \in DOMAIN ret : i \in InBucket(ret[k].timestamp, interval)

\* a six-hour timeline with a bucket that counts records of more rules than
\* the three it lists, records of the lowest and of the highest band among
\* them
C29_Witness ==
    /\ lastOp.op = "timeline" /\ lastOp.interval = "6h"
    /\ \E k \in DOMAIN lastOp.ret :
          /\ Len(lastOp.ret[k].top_rules) = 3
          /\ lastOp.ret[k].total_alerts >
                 lastOp.ret[k].top_rules[1].count + lastOp.ret[k].top_rules[2].count
                 + lastOp.ret[k].top_rules[3].count
          /\ lastOp.ret[k].severity_breakdown.critical > 0
          /\ lastOp.ret[k].severity_breakdown.low > 0

-----------------------------------------------------------------------------
(* The indexes after a load *)

\* the sequence holds nothing twice
NoRepeat(ids) == \A i, j \in DOMAIN ids : ids[i] = ids[j] => i = j

\* C31: after a load that returned, and until the next one, no identity is
\* twice in the time index, nor twice in the list of an agent or of a rule;
\* a list without filters holds no record twice.
C31_NoIdentityTwice ==
    /\ (lastOp.op \in {"load", "list"} /\ (lastOp.op = "load" => ~lastOp.raised)) =>
          /\ IndexedOnce
          /\ \A k \in DOMAIN agent_index : NoRepeat(agent_index[k])
          /\ \A k \in DOMAIN rule_index : NoRepeat(rule_index[k])
    /\ (lastOp.op = "list" /\ lastOp.filters = NoFilters) =>
          NoRepeat([i \in DOMAIN lastOp.alerts |-> lastOp.alerts[i].id])

\* C32: from the load of the start on, through the queries that follow it,
\* every identity the cache holds is in the time index together with the
\* timestamp of its record, in the agent index under its record's agent id
\* and in the rule index under its record's rule id.
C32_IndexesCoverCache ==
    \A id \in Keys(cache) :
        /\ <<ValueOf(cache, id).timestamp, id>> \in Range(time_index)
        /\ id \in Range(IndexGet(agent_index, ValueOf(cache, id).agent.id))
        /\ id \in Range(IndexGet(rule_index, ValueOf(cache, id).rule.id))

\* after a query, the cache is full of records of one agent and the indexes
\* hold an identity besides, which the cache gave up
C32_Witness ==
    /\ lastOp.op \in {"search", "severity", "timeline"}
    /\ Cardinality(Keys(cache)) = cache.max_size
    /\ cache._evictions > 0
    /\ \E i \in DOMAIN time_index : time_index[i][2] \notin Keys(cache)
    /\ \E id1, id2 \in Keys(cache) :
          id1 # id2 /\ ValueOf(cache, id1).agent.id = ValueOf(cache, id2).agent.id

\* the file is there and each of its records has a timestamp that parses
AllStamped(f) ==
    /\ f # Missing
    /\ \A i \in DOMAIN FileLines(f) :
          LineIsObject(FileLines(f)[i]) =>
              TimestampOf(LineRecord(FileLines(f)[i])) # None

\* C33: a load that follows a load directly, with the same start of the
\* window and over the same file, the records of which all have a timestamp
\* that parses, leaves the keys of the cache, the three indexes and what it
\* returns (or that it raises) as the load before it left them.
C33_ReloadChangesNothing ==
    [][(/\ lastOp.op = "load" /\ lastOp'.op = "load"
        /\ lastOp'.start_time = lastOp.start_time
        /\ file' = file /\ AllStamped(file))
       => /\ Keys(cache') = Keys(cache)
          /\ agent_index' = agent_index
          /\ rule_index' = rule_index
          /\ time_index' = time_index
          /\ lastOp'.ret = lastOp.ret
          /\ lastOp'.raised = lastOp.raised]_vars

\* a load has returned that began with the store holding just the identities
\* the load accepted itself, more of them than the cache has room for
C33_Witness ==
    /\ lastOp.op = "load" /\ ~lastOp.raised
    /\ AllStamped(file)
    /\ before = lastOp.ids
    /\ Cardinality(lastOp.ids) > cache.max_size
    /\ cache._evictions > 0

-----------------------------------------------------------------------------
(* SpecReader: _parse_reverse run step by step, a turn of its chunk loop   *)
(* and a line at a time, for a caller that takes records until the         *)
(* generator ends: parse_alerts read to its end, or load_recent_alerts,    *)
(* whose loop body runs between two records.  parsed holds the generator   *)
(* (arguments, where it stands, position, buffer, the lines of the chunk   *)
(* still to handle, what it has emitted) and the counts of the load.       *)

ReadSize_Nothing(chunk, position) == 0

\* chunk_size = min(8192, position), the chunk scaled as ChunkSize says
ReadSize(chunk, position) == Min(chunk, position)

\* the generator before its first step
NewReader(caller, start_time, end_time, max_alerts) ==
    [caller |-> caller, start_time |-> start_time, end_time |-> end_time,
     max_alerts |-> max_alerts, status |-> "new", position |-> 0,
     buffer |-> <<>>, lines |-> <<>>, out |-> <<>>, chunks |-> 0,
     taken |-> 0, loaded |-> 0, failed |-> 0, given |-> {}]

\* the callers of the model: parse_alerts(start_time, None, max_alerts,
\* reverse=True), and load_recent_alerts(hours) at the time now
Readers ==
    {NewReader("parse", s, None, m) : s \in {None, 2}, m \in {None, 0, 1}}
        \cup {NewReader("load", 3 - hours, None, None) : hours \in Hours}

ReaderInit ==
    /\ file \in FilesOf(LongLineTexts, MaxLines) \cup {Missing}
    /\ parsed \in Readers
    /\ now = 3
    /\ cache = NewCache(MaxCapacity)
    /\ agent_index = <<>>
    /\ rule_index = <<>>
    /\ time_index = <<>>
    /\ lastOp = NoOp
    /\ lastUse = <<>>
    /\ clock = 0
    /\ pending = NoPending
    /\ assigned = {}
    /\ before = {}
    /\ gets = NoGets
    /\ threads = NoThreads
    /\ input = NoInput

\* the caller has taken every record emitted, and the generator is resumed
Resumed == parsed.caller = "parse" \/ parsed.taken = Len(parsed.out)

\* the first step: a load clears the indexes and the cache, then the
\* generator is entered: open(self.file_path, "rb"), f.seek(0, 2),
\* position = f.tell()
ROpen ==
    /\ parsed.status = "new"
    /\ parsed' = IF file = Missing THEN [parsed EXCEPT !.status = "notfound"]
                 ELSE [parsed EXCEPT !.status = "run", !.position = Len(file)]
    /\ cache' = IF parsed.caller = "load" THEN CacheClear(cache) ELSE cache
    /\ agent_index' = <<>>
    /\ rule_index' = <<>>
    /\ time_index' = <<>>
    /\ UNCHANGED <<file, now, lastOp, lastUse, clock, pending, assigned,
                   before, gets, threads, input>>

\* the head of a turn of "while position > 0": the read and the split;
\* lines holds reversed(lines[1:])
RevChunk(f, rd, chunk) ==
    [rd EXCEPT
        !.position = rd.position - ReadSize(chunk, rd.position),
        !.buffer = Split(SubSeq(f, rd.position - ReadSize(chunk, rd.position) + 1,
                                rd.position) \o rd.buffer)[1],
        !.lines = Reverse(Tail(Split(SubSeq(f, rd.position - ReadSize(chunk, rd.position) + 1,
                                            rd.position) \o rd.buffer))),
        !.chunks = @ + 1]

RChunk ==
    /\ parsed.status = "run" /\ Resumed
    /\ parsed.lines = <<>> /\ parsed.position > 0
    /\ parsed' = RevChunk(file, parsed, ChunkSize)
    /\ UNCHANGED <<file, now, cache, agent_index, rule_index, time_index,
                   lastOp, lastUse, clock, pending, assigned, before, gets,
                   threads, input>>

\* one turn of the loop over reversed(lines[1:])
RevLine(rd) ==
    [rd EXCEPT
        !.lines = Tail(rd.lines),
        !.out = RevLines(<<Head(rd.lines)>>, 1, rd.start_time, rd.end_time,
                         rd.max_alerts, [out |-> rd.out, status |-> "run"]).out,
        !.status = RevLines(<<Head(rd.lines)>>, 1, rd.start_time, rd.end_time,
                            rd.max_alerts, [out |-> rd.out, status |-> "run"]).status]

RLine ==
    /\ parsed.status = "run" /\ Resumed
    /\ parsed.lines # <<>>
    /\ parsed' = RevLine(parsed)
    /\ UNCHANGED <<file, now, cache, agent_index, rule_index, time_index,
                   lastOp, lastUse, clock, pending, assigned, before, gets,
                   threads, input>>

\* "while position > 0" is left: the generator is exhausted
RExhausted ==
    /\ parsed.status = "run" /\ Resumed
    /\ parsed.lines = <<>> /\ ~(parsed.position > 0)
    /\ parsed' = [parsed EXCEPT !.status = "end"]
    /\ UNCHANGED <<file, now, cache, agent_index, rule_index, time_index,
                   lastOp, lastUse, clock, pending, assigned, before, gets,
                   threads, input>>

\* what the loop of the load has built so far
LoadSoFar ==
    [cache |-> cache, agent_index |-> agent_index, rule_index |-> rule_index,
     time_index |-> time_index, loaded |-> parsed.loaded,
     failed |-> parsed.failed, raised |-> FALSE, given |-> parsed.given]

\* the body of the loop of load_recent_alerts, on the record the generator
\* has just emitted
RTake ==
    /\ parsed.caller = "load" /\ parsed.taken < Len(parsed.out)
    /\ \E r \in {Process(RawOf(parsed.out[parsed.taken + 1].body), now)} :
       \E st \in {LoadRecord(LoadSoFar, parsed.out[parsed.taken + 1].body, r, now)} :
           /\ cache' = st.cache
           /\ agent_index' = st.agent_index
           /\ rule_index' = st.rule_index
           /\ time_index' = st.time_index
           /\ parsed' = [parsed EXCEPT !.taken = @ + 1, !.loaded = st.loaded,
                                       !.failed = st.failed, !.given = st.given,
                                       !.status = IF st.raised THEN "raise" ELSE @]
    /\ UNCHANGED <<file, now, lastOp, lastUse, clock, pending, assigned,
                   before, gets, threads, input>>

Ended == {"end", "stop", "raise", "notfound"}

\* load_recent_alerts once the generator has ended: the sort and the
\* return, or the exception
RLoadEnd ==
    /\ parsed.caller = "load" /\ parsed.status \in Ended /\ lastOp = NoOp
    /\ parsed.taken = Len(parsed.out)
    /\ \E r \in {LoadEnd(LoadSoFar,
                          Outcome([out |-> parsed.out, status |-> parsed.status]),
                          parsed.start_time)} :
           LoadDone(r, now)
    /\ UNCHANGED <<assigned, before>>

ReaderNext == ROpen \/ RChunk \/ RLine \/ RExhausted \/ RTake \/ RLoadEnd

\* the caller goes on taking records: the generator is not left half-way
SpecReader == ReaderInit /\ [][ReaderNext]_vars /\ WF_vars(ReaderNext)

\* the generator has ended and, the caller being a load, the load has too
AllEnded ==
    /\ parsed.status \in Ended
    /\ parsed.caller = "load" => lastOp.op = "load"

\* C34: every turn of the chunk loop leaves the position smaller than it
\* was, and nothing else moves it; the position is never below 0; a
\* generator that has ended without raising has come to position 0, or has
\* emitted max_alerts records, or has met a record older than the start of
\* the window; and every read ends, and with it the load that made it,
\* returning or raising.
C34_ReverseReadingEnds ==
    /\ [][/\ parsed'.chunks # parsed.chunks => parsed'.position < parsed.position
          /\ (parsed.status = "run" /\ parsed'.chunks = parsed.chunks)
                => parsed'.position = parsed.position]_vars
    /\ [](parsed.position >= 0)
    /\ [](/\ parsed.status = "end" => parsed.position = 0
          /\ parsed.status = "stop" =>
                \/ MaxReached(parsed.max_alerts, Len(parsed.out))
                \/ parsed.start_time # None)
    /\ <>[]AllEnded

\* a load has ended whose read took three turns of the chunk loop or more
\* and came to the start of the file
C34_Witness ==
    /\ lastOp.op = "load"
    /\ parsed.status = "end" /\ parsed.position = 0
    /\ parsed.chunks >= 3
    /\ parsed.out # <<>>

====
